---- MODULE Spec2Model ----
(***************************************************************************)
(* Verification model of the personal finance agent:                       *)
(*   - src/src/rag/vector_store.py      chunking and context assembly      *)
(*   - src/src/core/document_processor.py, src/src/mcp/pdf_server.py       *)
(*                                       text extraction, classification   *)
(*   - src/src/core/finance_profile.py  ledger rows and aggregates         *)
(*   - src/src/ui/backend/main.py       the web API handlers               *)
(* Strings are sequences of one-character strings, positions are Python's  *)
(* 0-based indices, and every component has its own specification.         *)
(***************************************************************************)
EXTENDS Integers, Sequences, FiniteSets, TLC

VARIABLES
    \* RAGVectorStore._chunk_text
    text, chunk_size, overlap, start, chunks, spans, cuts, cpc,
    \* RAGVectorStore.get_context_for_query
    ranked, max_tokens, results, context_parts, current_tokens, context, qpc,
    \* DocumentProcessor._classify_document_type
    text_content, document_type, dpc,
    \* DocumentProcessor._extract_text_via_mcp and the PDF server
    pdf, installed, request, process, extracted, epc,
    \* FinanceProfileManager
    ledger, ledger_before, document_id, analysis, summary, ppc,
    \* The web API: the settings and documents tables, the files under
    \* data/uploads, and the last HTTP response
    settings, documents, uploads, response, last_request,
    \* LLMClient.analyze_financial_document
    provider, outcome, llm_result, lpc,
    \* DocumentProcessor.process_document
    call, processed, kpc,
    \* RAGVectorStore: the collection of chunks and the last call
    collection, collection_before, store_call, returned,
    \* The chat_messages table and the calls made to the LLM provider
    chat_messages, llm_calls,
    \* The tray launcher: its flag, the server threads it started, the menu callback in progress, the pages opened in the browser
    running, server_threads, handler, opened, icon, clicks

chunkVars == <<text, chunk_size, overlap, start, chunks, spans, cuts, cpc>>
contextVars == <<ranked, max_tokens, results, context_parts, current_tokens, context, qpc>>
classifyVars == <<text_content, document_type, dpc>>
extractionVars == <<pdf, installed, request, process, extracted, epc>>
profileVars == <<ledger, ledger_before, document_id, analysis, summary, ppc>>
apiVars == <<settings, documents, uploads, response, last_request>>

llmVars == <<provider, outcome, llm_result, lpc>>
processVars == <<call, processed, kpc>>
storeVars == <<collection, collection_before, store_call, returned>>
chatVars == <<chat_messages, llm_calls>>
trayVars == <<running, server_threads, handler, opened, icon, clicks>>
vars == <<chunkVars, contextVars, classifyVars, extractionVars, profileVars, apiVars, llmVars, processVars, storeVars, chatVars, trayVars>>

\* What an action of one component leaves alone: the other components.
exceptChunk == <<contextVars, classifyVars, extractionVars, profileVars, apiVars, llmVars, processVars, storeVars, chatVars, trayVars>>
exceptContext == <<chunkVars, classifyVars, extractionVars, profileVars, apiVars, llmVars, processVars, storeVars, chatVars, trayVars>>
exceptClassify == <<chunkVars, contextVars, extractionVars, profileVars, apiVars, llmVars, processVars, storeVars, chatVars, trayVars>>
exceptExtraction == <<chunkVars, contextVars, classifyVars, profileVars, apiVars, llmVars, processVars, storeVars, chatVars, trayVars>>
exceptProfile == <<chunkVars, contextVars, classifyVars, extractionVars, apiVars, llmVars, processVars, storeVars, chatVars, trayVars>>
exceptApi == <<chunkVars, contextVars, classifyVars, extractionVars, profileVars, llmVars, processVars, storeVars, chatVars, trayVars>>
exceptLlm == <<chunkVars, contextVars, classifyVars, extractionVars, profileVars, apiVars, processVars, storeVars, chatVars, trayVars>>
exceptProcess == <<chunkVars, contextVars, classifyVars, extractionVars, profileVars, apiVars, llmVars, storeVars, chatVars, trayVars>>
exceptStore == <<chunkVars, contextVars, classifyVars, extractionVars, profileVars, apiVars, llmVars, processVars, chatVars, trayVars>>
exceptChat == <<chunkVars, contextVars, classifyVars, extractionVars, profileVars, apiVars, llmVars, processVars, storeVars, trayVars>>
exceptApiAndChat == <<chunkVars, contextVars, classifyVars, extractionVars, profileVars, llmVars, processVars, storeVars, trayVars>>
exceptTray == <<chunkVars, contextVars, classifyVars, extractionVars, profileVars, apiVars, llmVars, processVars, storeVars, chatVars>>

(***************************************************************************)
(* Bounds of the model.                                                    *)
(***************************************************************************)
\* Longest text handed to _chunk_text.
MaxTextLen == 10
\* The default chunk_size (1000 in the source) and overlap (100), scaled so
\* that every text up to MaxTextLen can be enumerated. The scaling keeps what
\* the loop depends on: 1 <= overlap < chunk_size \div 2.
DefaultChunkSize == 6
DefaultOverlap == 1
\* Longest text and largest chunk_size of the calls of _chunk_text with
\* arbitrary parameters, and most iterations of its loop that are followed.
MaxShortTextLen == 5
MaxChunkSize == 4
MaxIterations == 7
\* Most chunks the collection answers a query with, their longest document,
\* and the largest max_tokens asked for.
MaxRanked == 3
MaxDocLen == 8
MaxTokens == 3
\* Most fragments a classified text is put together from.
MaxFragments == 3
\* Most pages of a PDF file.
MaxPages == 1
\* Most items of a transactions list and of an investments list, and most
\* rows in the ledger before process_document_analysis is called.
MaxTransactions == 1
MaxInvestments == 1
MaxStoredRows == 1
\* Most rows of the documents table.
MaxDocuments == 2
\* Most rows of the chat_messages table.
MaxChatMessages == 2
\* Most menu items clicked in the tray launcher.
MaxClicks == 3
\* Longest reply of the LLM provider.
MaxReplyLen == 3

(***************************************************************************)
(* Python string primitives.                                               *)
(***************************************************************************)
Dot == "."
Space == " "
TextChars == {"a", Dot, Space}

None == "None"

Min(a, b) == IF a < b THEN a ELSE b
Max(a, b) == IF a > b THEN a ELSE b

\* A slice index i of a string of length n, as Python clamps it.
SliceIndex(i, n) == IF i < 0 THEN Max(n + i, 0) ELSE Min(i, n)

\* s[a:b] with the last character lost.
SliceShort(s, a, b) ==
    LET lo == SliceIndex(a, Len(s))
        hi == SliceIndex(b, Len(s))
    IN  SubSeq(s, lo + 1, hi - 1)

\* s[a:b]
Slice(s, a, b) ==
    LET lo == SliceIndex(a, Len(s))
        hi == SliceIndex(b, Len(s))
    IN  SubSeq(s, lo + 1, hi)

\* s.rfind(ch, a, b): the highest index in [a, b) holding ch, or -1.
RFind(s, ch, a, b) ==
    LET lo == SliceIndex(a, Len(s))
        hi == SliceIndex(b, Len(s))
        hits == {i \in lo..(hi - 1) : s[i + 1] = ch}
    IN  IF hits = {} THEN -1 ELSE CHOOSE i \in hits : \A j \in hits : j <= i

IsSpace(c) == c = Space

\* The number of leading and of trailing whitespace characters of s.
LeadingSpaces(s) ==
    IF \A i \in 1..Len(s) : IsSpace(s[i]) THEN Len(s)
    ELSE (CHOOSE i \in 1..Len(s) : ~IsSpace(s[i]) /\ \A j \in 1..(i - 1) : IsSpace(s[j])) - 1
TrailingSpaces(s) ==
    IF \A i \in 1..Len(s) : IsSpace(s[i]) THEN Len(s)
    ELSE Len(s) - (CHOOSE i \in 1..Len(s) : ~IsSpace(s[i]) /\ \A j \in (i + 1)..Len(s) : IsSpace(s[j]))

\* s.strip()
Strip(s) ==
    IF LeadingSpaces(s) = Len(s) THEN <<>>
    ELSE SubSeq(s, LeadingSpaces(s) + 1, Len(s) - TrailingSpaces(s))

(***************************************************************************)
(* RAGVectorStore._chunk_text, one action per loop iteration.              *)
(***************************************************************************)
Texts == UNION {[1..n -> TextChars] : n \in 0..MaxTextLen}

ChunkParams == {<<DefaultChunkSize, DefaultOverlap>>}

\* The signature of line 160 takes any chunk_size and overlap: the short
\* texts and the parameter pairs with chunk_size >= 1, 0 <= overlap < chunk_size.
ShortTexts == UNION {[1..n -> TextChars] : n \in 0..MaxShortTextLen}
AnyChunkParams == {<<cs, ov>> : cs \in 1..MaxChunkSize, ov \in 0..(MaxChunkSize - 1)} \cap
                  {p \in (1..MaxChunkSize) \X (0..(MaxChunkSize - 1)) : p[2] < p[1]}

\* The chunker before any call, for the specifications of other components.
ChunkIdle ==
    /\ text = <<>>
    /\ chunk_size = DefaultChunkSize
    /\ overlap = DefaultOverlap
    /\ start = 0
    /\ chunks = <<>>
    /\ spans = <<>>
    /\ cuts = <<>>
    /\ cpc = "idle"

ChunkInit ==
    /\ text \in Texts
    /\ \E p \in ChunkParams : chunk_size = p[1] /\ overlap = p[2]
    /\ start = 0
    /\ chunks = <<>>
    /\ spans = <<>>
    /\ cuts = <<>>
    /\ cpc = "call"

\* _chunk_text called with arbitrary parameters.
ChunkAnyInit ==
    /\ text \in ShortTexts
    /\ \E p \in AnyChunkParams : chunk_size = p[1] /\ overlap = p[2]
    /\ start = 0
    /\ chunks = <<>>
    /\ spans = <<>>
    /\ cuts = <<>>
    /\ cpc = "call"

\* The end of the window with the searches reaching one character further.
ChunkEndInclusive(t, st, cs) ==
    LET e == st + cs
        sentence_end == RFind(t, Dot, st, e + 1)
        word_end == RFind(t, Space, st, e + 1)
    IN  IF e < Len(t)
        THEN IF sentence_end > st + cs \div 2 THEN sentence_end + 1
             ELSE IF word_end > st + cs \div 2 THEN word_end
             ELSE e
        ELSE e

\* The end of the window that starts at st: lines 172-184.
ChunkEndWordFirst(t, st, cs) ==
    LET e == st + cs
        sentence_end == RFind(t, Dot, st, e)
        word_end == RFind(t, Space, st, e)
    IN  IF e < Len(t)
        THEN IF word_end > st + cs \div 2 THEN word_end
             ELSE IF sentence_end > st + cs \div 2 THEN sentence_end + 1
             ELSE e
        ELSE e

ChunkEnd(t, st, cs) ==
    LET e == st + cs
        sentence_end == RFind(t, Dot, st, e)
        word_end == RFind(t, Space, st, e)
    IN  IF e < Len(t)
        THEN IF sentence_end > st + cs \div 2 THEN sentence_end + 1
             ELSE IF word_end > st + cs \div 2 THEN word_end
             ELSE e
        ELSE e

\* The start of the next window: line 191.
NextStartNoOverlap(e, ov) == e + ov

NextStart(e, ov) == e - ov

\* Lines 164-168: a text no longer than chunk_size is returned whole.
ChunkShort ==
    /\ cpc = "call"
    /\ Len(text) <= chunk_size
    /\ chunks' = <<text>>
    /\ spans' = <<[lo |-> 0, hi |-> Len(text)]>>
    /\ cpc' = "done"
    /\ UNCHANGED <<text, chunk_size, overlap, start, cuts>>
    /\ UNCHANGED exceptChunk

ChunkBegin ==
    /\ cpc = "call"
    /\ Len(text) > chunk_size
    /\ chunks' = <<>>
    /\ spans' = <<>>
    /\ start' = 0
    /\ cpc' = "loop"
    /\ UNCHANGED <<text, chunk_size, overlap, cuts>>
    /\ UNCHANGED exceptChunk

\* Lines 170-193: one iteration of the while loop.
ChunkIter ==
    /\ cpc = "loop"
    /\ start < Len(text)
    /\ Len(cuts) < MaxIterations
    /\ LET end == ChunkEnd(text, start, chunk_size)
           window == Slice(text, start, end)
           chunk == Strip(window)
           lo == SliceIndex(start, Len(text)) + LeadingSpaces(window)
       IN  /\ cuts' = Append(cuts, [start |-> start, end |-> end])
           /\ IF chunk # <<>>
              THEN /\ chunks' = Append(chunks, chunk)
                   /\ spans' = Append(spans, [lo |-> lo, hi |-> lo + Len(chunk)])
              ELSE UNCHANGED <<chunks, spans>>
           /\ start' = NextStart(end, overlap)
           /\ cpc' = IF start' >= Len(text) THEN "done" ELSE "loop"
    /\ UNCHANGED <<text, chunk_size, overlap>>
    /\ UNCHANGED exceptChunk

ChunkNext == ChunkShort \/ ChunkBegin \/ ChunkIter

(***************************************************************************)
(* RAGVectorStore.search and get_context_for_query.                        *)
(***************************************************************************)
NL == "\n"
DigitChars == <<"0", "1", "2", "3", "4", "5", "6", "7", "8", "9">>

\* str(n) for n >= 0.
RECURSIVE IntStr(_)
IntStr(n) == IF n < 10 THEN <<DigitChars[n + 1]>>
             ELSE IntStr(n \div 10) \o <<DigitChars[(n % 10) + 1]>>

Abs(n) == IF n < 0 THEN -n ELSE n

\* f"{x:.2f}" of the number h / 100.
FormatFixed2(h) ==
    (IF h < 0 THEN <<"-">> ELSE <<>>)
        \o IntStr(Abs(h) \div 100) \o <<".">>
        \o <<DigitChars[((Abs(h) % 100) \div 10) + 1], DigitChars[(Abs(h) % 10) + 1]>>

\* f"[Relevance: {score:.2f}] {document}": line 213.
RelevancePrefix == <<"[", "R", "e", "l", "e", "v", "a", "n", "c", "e", ":", " ">>
ContextPart(result) ==
    RelevancePrefix \o FormatFixed2(result.relevance_score) \o <<"]", " ">> \o result.document

\* sep.join(parts)
RECURSIVE Join(_, _)
Join(sep, parts) ==
    IF parts = <<>> THEN <<>>
    ELSE IF Len(parts) = 1 THEN parts[1]
    ELSE parts[1] \o sep \o Join(sep, Tail(parts))

\* n_results of the search made by get_context_for_query: line 201.
ContextNResults == 10

\* Rough token estimation, 1 token per 4 characters: line 208.
ChunkTokens(result) == Len(result.document) \div 4

\* Stored chunk texts and their distances to the query, in hundredths.
Documents == {[i \in 1..n |-> "a"] : n \in {0, 3, 4, MaxDocLen}}
Distances == {15, 150}
Hits == [document : Documents, distance : Distances]
\* A collection of more chunks than the search asks for, all of them short.
LongRanking ==
    [i \in 1..(ContextNResults + 1) |-> [document |-> <<"a", "a", "a">>, distance |-> 15]]
Rankings == UNION {[1..n -> Hits] : n \in 0..MaxRanked} \cup {LongRanking}

ContextIdle ==
    /\ ranked = <<>>
    /\ max_tokens = 0
    /\ results = <<>>
    /\ context_parts = <<>>
    /\ current_tokens = 0
    /\ context = None
    /\ qpc = "idle"

\* The collection's chunks in the order of their distance to the query.
ContextInit ==
    /\ ranked \in Rankings
    /\ \A i \in 1..(Len(ranked) - 1) : ranked[i].distance <= ranked[i + 1].distance
    /\ max_tokens \in 0..MaxTokens
    /\ results = <<>>
    /\ context_parts = <<>>
    /\ current_tokens = 0
    /\ context = None
    /\ qpc = "call"

\* search without the n_results of the query.
SearchUnbounded(n_results) ==
    [i \in 1..Len(ranked) |->
        [document |-> ranked[i].document,
         distance |-> ranked[i].distance,
         relevance_score |-> 100 - ranked[i].distance]]

\* search(query, n_results): lines 67-92.
Search(n_results) ==
    [i \in 1..Min(n_results, Len(ranked)) |->
        [document |-> ranked[i].document,
         distance |-> ranked[i].distance,
         relevance_score |-> 100 - ranked[i].distance]]

\* Line 201.
ContextSearch ==
    /\ qpc = "call"
    /\ results' = Search(ContextNResults)
    /\ context_parts' = <<>>
    /\ current_tokens' = 0
    /\ qpc' = "loop"
    /\ UNCHANGED <<ranked, max_tokens, context>>
    /\ UNCHANGED exceptContext

\* Lines 206-214: the loop body for the next result, when it fits.
ContextTake ==
    /\ qpc = "loop"
    /\ Len(context_parts) < Len(results)
    /\ LET result == results[Len(context_parts) + 1]
           chunk_tokens == ChunkTokens(result)
       IN  /\ ~(current_tokens + chunk_tokens > max_tokens)
           /\ context_parts' = Append(context_parts, ContextPart(result))
           /\ current_tokens' = current_tokens + chunk_tokens
    /\ UNCHANGED <<ranked, max_tokens, results, context, qpc>>
    /\ UNCHANGED exceptContext

\* Lines 210-211 and 216: the loop ends at the first result that does not fit,
\* or after the last result, and the parts are joined.
ContextReturn ==
    /\ qpc = "loop"
    /\ \/ Len(context_parts) = Len(results)
       \/ /\ Len(context_parts) < Len(results)
          /\ current_tokens + ChunkTokens(results[Len(context_parts) + 1]) > max_tokens
    /\ context' = Join(<<NL, NL>>, context_parts)
    /\ qpc' = "done"
    /\ UNCHANGED <<ranked, max_tokens, results, context_parts, current_tokens>>
    /\ UNCHANGED exceptContext

ContextNext == ContextSearch \/ ContextTake \/ ContextReturn

(***************************************************************************)
(* DocumentProcessor._classify_document_type.                              *)
(***************************************************************************)
UpperChars ==
    <<"A", "B", "C", "D", "E", "F", "G", "H", "I", "J", "K", "L", "M", "N", "O", "P", "Q", "R", "S", "T", "U", "V", "W", "X", "Y", "Z">>
LowerChars ==
    <<"a", "b", "c", "d", "e", "f", "g", "h", "i", "j", "k", "l", "m", "n", "o", "p", "q", "r", "s", "t", "u", "v", "w", "x", "y", "z">>

\* c.lower() for one character.
LowerChar(c) ==
    IF \E i \in 1..Len(UpperChars) : UpperChars[i] = c
    THEN LowerChars[CHOOSE i \in 1..Len(UpperChars) : UpperChars[i] = c]
    ELSE c

\* A missing lower(): the text is left as it is.
LowerIdentity(s) == s

\* s.lower()
Lower(s) == [i \in 1..Len(s) |-> LowerChar(s[i])]

\* pattern in s
Contains(s, pattern) ==
    \E i \in 1..(Len(s) - Len(pattern) + 1) : SubSeq(s, i, i + Len(pattern) - 1) = pattern

\* any(pattern in s for pattern in patterns)
AnyIn(patterns, s) == \E k \in 1..Len(patterns) : Contains(s, patterns[k])

\* Lines 154-157.
CreditCardPatterns ==
    <<<<"c", "r", "e", "d", "i", "t", " ", "c", "a", "r", "d">>,
      <<"s", "t", "a", "t", "e", "m", "e", "n", "t", " ", "b", "a", "l", "a", "n", "c", "e">>,
      <<"m", "i", "n", "i", "m", "u", "m", " ", "p", "a", "y", "m", "e", "n", "t">>,
      <<"p", "a", "y", "m", "e", "n", "t", " ", "d", "u", "e">>,
      <<"a", "v", "a", "i", "l", "a", "b", "l", "e", " ", "c", "r", "e", "d", "i", "t">>,
      <<"c", "r", "e", "d", "i", "t", " ", "l", "i", "m", "i", "t">>,
      <<"a", "n", "n", "u", "a", "l", " ", "p", "e", "r", "c", "e", "n", "t", "a", "g", "e", " ", "r", "a", "t", "e">>>>

\* Lines 161-164.
BankStatementPatterns ==
    <<<<"c", "h", "e", "c", "k", "i", "n", "g", " ", "a", "c", "c", "o", "u", "n", "t">>,
      <<"s", "a", "v", "i", "n", "g", "s", " ", "a", "c", "c", "o", "u", "n", "t">>,
      <<"a", "c", "c", "o", "u", "n", "t", " ", "b", "a", "l", "a", "n", "c", "e">>,
      <<"d", "e", "p", "o", "s", "i", "t", "s">>,
      <<"w", "i", "t", "h", "d", "r", "a", "w", "a", "l", "s">>,
      <<"o", "p", "e", "n", "i", "n", "g", " ", "b", "a", "l", "a", "n", "c", "e">>,
      <<"c", "l", "o", "s", "i", "n", "g", " ", "b", "a", "l", "a", "n", "c", "e">>>>

\* Lines 168-171.
InvestmentPatterns ==
    <<<<"p", "o", "r", "t", "f", "o", "l", "i", "o">>,
      <<"s", "e", "c", "u", "r", "i", "t", "i", "e", "s">>,
      <<"d", "i", "v", "i", "d", "e", "n", "d">>,
      <<"c", "a", "p", "i", "t", "a", "l", " ", "g", "a", "i", "n", "s">>,
      <<"m", "u", "t", "u", "a", "l", " ", "f", "u", "n", "d">>,
      <<"s", "t", "o", "c", "k">>,
      <<"b", "o", "n", "d">>,
      <<"i", "n", "v", "e", "s", "t", "m", "e", "n", "t", " ", "a", "c", "c", "o", "u", "n", "t">>>>

\* Lines 175-178.
TaxDocumentPatterns ==
    <<<<"f", "o", "r", "m", " ", "1", "0", "4", "0">>,
      <<"t", "a", "x", " ", "r", "e", "t", "u", "r", "n">>,
      <<"w", "-", "2">>,
      <<"1", "0", "9", "9">>,
      <<"i", "r", "s">>,
      <<"a", "d", "j", "u", "s", "t", "e", "d", " ", "g", "r", "o", "s", "s", " ", "i", "n", "c", "o", "m", "e">>,
      <<"t", "a", "x", "a", "b", "l", "e", " ", "i", "n", "c", "o", "m", "e">>>>

\* Lines 182-185.
InsurancePatterns ==
    <<<<"i", "n", "s", "u", "r", "a", "n", "c", "e">>,
      <<"p", "o", "l", "i", "c", "y">>,
      <<"p", "r", "e", "m", "i", "u", "m">>,
      <<"d", "e", "d", "u", "c", "t", "i", "b", "l", "e">>,
      <<"c", "o", "v", "e", "r", "a", "g", "e">>,
      <<"c", "l", "a", "i", "m">>>>

\* Lines 189-192.
LoanPatterns ==
    <<<<"m", "o", "r", "t", "g", "a", "g", "e">>,
      <<"l", "o", "a", "n">>,
      <<"p", "r", "i", "n", "c", "i", "p", "a", "l">>,
      <<"i", "n", "t", "e", "r", "e", "s", "t", " ", "r", "a", "t", "e">>,
      <<"m", "o", "n", "t", "h", "l", "y", " ", "p", "a", "y", "m", "e", "n", "t">>,
      <<"b", "a", "l", "a", "n", "c", "e", " ", "r", "e", "m", "a", "i", "n", "i", "n", "g">>>>

\* Lines 147-195.
classify_document_type(text_content_) ==
    LET text_lower == Lower(text_content_)
    IN  IF AnyIn(CreditCardPatterns, text_lower) THEN "credit_card"
        ELSE IF AnyIn(BankStatementPatterns, text_lower) THEN "bank_statement"
        ELSE IF AnyIn(InvestmentPatterns, text_lower) THEN "investment"
        ELSE IF AnyIn(TaxDocumentPatterns, text_lower) THEN "tax_document"
        ELSE IF AnyIn(InsurancePatterns, text_lower) THEN "insurance"
        ELSE IF AnyIn(LoanPatterns, text_lower) THEN "loan"
        ELSE "other"

\* The pieces the classified texts are put together from.
Fragments ==
    {<<"C", "r", "e", "d", "i", "t", " ", "C", "a", "r", "d">>,
     <<"D", "E", "P", "O", "S", "I", "T", "S">>,
     <<"S", "t", "o", "c", "k">>,
     <<"I", "R", "S">>,
     <<"f", "i", "r", "s", "t">>,
     <<"P", "o", "l", "i", "c", "y">>,
     <<"L", "O", "A", "N">>,
     <<"M", "o", "n", "t", "h", "l", "y">>,
     <<"P", "a", "y", "m", "e", "n", "t">>,
     <<"D", "u", "e">>,
     <<" ">>,
     <<"h", "e", "l", "l", "o">>}

RECURSIVE Concat(_)
Concat(ss) == IF ss = <<>> THEN <<>> ELSE ss[1] \o Concat(Tail(ss))

FragmentTexts == {Concat(fs) : fs \in UNION {[1..n -> Fragments] : n \in 0..MaxFragments}}

ClassifyIdle ==
    /\ text_content = <<>>
    /\ document_type = None
    /\ dpc = "idle"

ClassifyInit ==
    /\ text_content \in FragmentTexts
    /\ document_type = None
    /\ dpc = "call"

Classify ==
    /\ dpc = "call"
    /\ document_type' = classify_document_type(text_content)
    /\ dpc' = "done"
    /\ UNCHANGED text_content
    /\ UNCHANGED exceptClassify

ClassifyNext == Classify

(***************************************************************************)
(* Text extraction: DocumentProcessor._extract_text_via_mcp,               *)
(* _extract_text_direct and PDFProcessingServer._extract_text.             *)
(***************************************************************************)
\* What is printed on every page of a file.
PageBodies == {<<"L", "O", "A", "N">>, <<"D", "e", "p", "o", "s", "i", "t", "s">>}

\* A PDF library either reads a file or raises.
LibOk == "LibOk"
LibError == "LibError"

\* The files handed to the extractor: whether the path exists, how many
\* pages it has and whether each library can read it. No library reads a
\* path that does not exist.
Pdfs ==
    {f \in [exists : BOOLEAN,
            pages : 0..MaxPages,
            body : PageBodies,
            pymupdf : {LibOk, LibError},
            pdfplumber : {LibOk, LibError}] :
        ~f.exists => (f.pymupdf = LibError /\ f.pdfplumber = LibError)}

\* The text a library builds, a header and the page's text for every page:
\* pdf_server.py lines 120-126 and 133-139, document_processor.py lines
\* 118-125 and 132-139.
\* PyMuPDF's get_text ends a page's text with a newline; pdfplumber's
\* extract_text does not.
PageHeader(n) == <<NL, "-", "-", "-", " ", "P", "a", "g", "e", " ">> \o IntStr(n) \o <<" ", "-", "-", "-", NL>>
RECURSIVE PagesText(_, _, _)
PagesText(n, body, ending) ==
    IF n = 0 THEN <<>>
    ELSE PagesText(n - 1, body, ending) \o PageHeader(n) \o body \o ending
PyMuPDFText(f) == PagesText(f.pages, f.body, <<NL>>)
PdfplumberText(f) == PagesText(f.pages, f.body, <<>>)

\* Which of the two libraries can be imported.
Installs == [pymupdf : BOOLEAN, pdfplumber : BOOLEAN]

\* PDFProcessingServer._extract_text, the results dict: lines 115-141.
ServerResults(args, f) ==
    LET method == IF "method" \in DOMAIN args THEN args["method"] ELSE "both"
        viaPyMuPDF ==
            IF method \in {"pymupdf", "both"}
            THEN IF f.pymupdf # LibError
                 THEN [k \in {"pymupdf"} |-> PyMuPDFText(f)]
                 ELSE [k \in {"pymupdf_error"} |-> "error"]
            ELSE <<>>
        viaPdfplumber ==
            IF method \in {"pdfplumber", "both"}
            THEN IF f.pdfplumber # LibError
                 THEN [k \in {"pdfplumber"} |-> PdfplumberText(f)]
                 ELSE [k \in {"pdfplumber_error"} |-> "error"]
            ELSE <<>>
    IN  viaPyMuPDF @@ viaPdfplumber

\* handle_call_tool for extract_text: lines 93-113 and 143-145. The content
\* is the JSON of the results, or the text "Error: ..." of an exception.
ServerContent(args, f) ==
    IF ~f.exists
    THEN [format |-> "text", value |-> "Error: PDF file not found"]
    ELSE [format |-> "json", value |-> ServerResults(args, f)]

\* How a call ends: with a text, with None, or with an exception.
Return(v) == [kind |-> "text", value |-> v]
ReturnNone == [kind |-> "none", value |-> <<>>]
Raise == [kind |-> "raise", value |-> <<>>]

\* Lines 97-103 with the two libraries swapped.
SelectTextPyMuPDFFirst(extraction_results) ==
    IF "pymupdf" \in DOMAIN extraction_results
    THEN Return(extraction_results["pymupdf"])
    ELSE IF "pdfplumber" \in DOMAIN extraction_results
    THEN Return(extraction_results["pdfplumber"])
    ELSE ReturnNone

\* Prefer pdfplumber result, fallback to pymupdf: lines 97-103.
SelectText(extraction_results) ==
    IF "pdfplumber" \in DOMAIN extraction_results
    THEN Return(extraction_results["pdfplumber"])
    ELSE IF "pymupdf" \in DOMAIN extraction_results
    THEN Return(extraction_results["pymupdf"])
    ELSE ReturnNone

\* _extract_text_direct: lines 110-145. PyMuPDF is tried first; pdfplumber
\* only when importing PyMuPDF raises ImportError, and an exception of
\* pdfplumber other than ImportError is not caught.
extract_text_direct(f, inst) ==
    IF inst.pymupdf
    THEN IF f.pymupdf # LibError THEN Return(PyMuPDFText(f)) ELSE ReturnNone
    ELSE IF inst.pdfplumber
         THEN IF f.pdfplumber # LibError THEN Return(PdfplumberText(f)) ELSE Raise
         ELSE ReturnNone

\* No request written, no process ended, nothing returned yet.
NoRequest == [name |-> None, arguments |-> <<>>]
NoResponse == [none |-> TRUE]
NoProcess == [returncode |-> -1, stdout |-> "", response |-> NoResponse]
NotReturned == [kind |-> "running", value |-> <<>>]

ExtractionIdle ==
    /\ pdf = [exists |-> FALSE, pages |-> 0, body |-> <<>>,
              pymupdf |-> LibError, pdfplumber |-> LibError]
    /\ installed = [pymupdf |-> FALSE, pdfplumber |-> FALSE]
    /\ request = NoRequest
    /\ process = NoProcess
    /\ extracted = NotReturned
    /\ epc = "idle"

ExtractionInit ==
    /\ pdf \in Pdfs
    /\ installed \in Installs
    /\ request = NoRequest
    /\ process = NoProcess
    /\ extracted = NotReturned
    /\ epc = "call"

\* Lines 66-89: the server process is started and the request written.
ClientSend ==
    /\ epc = "call"
    /\ request' = [name |-> "extract_text",
                   arguments |-> [file_path |-> "file", method |-> "both"]]
    /\ epc' = "server"
    /\ UNCHANGED <<pdf, installed, process, extracted>>
    /\ UNCHANGED exceptExtraction

\* Lines 66-71 and 105-108: starting the process raises.
ClientSpawnFails ==
    /\ epc = "call"
    /\ epc' = "direct"
    /\ UNCHANGED <<pdf, installed, request, process, extracted>>
    /\ UNCHANGED exceptExtraction

\* The server answers the call: pdf_server.py lines 92-145.
ServerAnswers ==
    /\ epc = "server"
    /\ installed.pymupdf /\ installed.pdfplumber
    /\ process' = [returncode |-> 0, stdout |-> "response",
                   response |-> [result |-> [content |-> ServerContent(request.arguments, pdf)]]]
    /\ epc' = "reply"
    /\ UNCHANGED <<pdf, installed, request, extracted>>
    /\ UNCHANGED exceptExtraction

\* The server ends with a JSON-RPC error instead of a result.
ServerRejects ==
    /\ epc = "server"
    /\ installed.pymupdf /\ installed.pdfplumber
    /\ process' = [returncode |-> 0, stdout |-> "response", response |-> [error |-> "rejected"]]
    /\ epc' = "reply"
    /\ UNCHANGED <<pdf, installed, request, extracted>>
    /\ UNCHANGED exceptExtraction

\* The server's output is not one JSON document.
ServerGarbles ==
    /\ epc = "server"
    /\ process' = [returncode |-> 0, stdout |-> "garbage", response |-> NoResponse]
    /\ epc' = "reply"
    /\ UNCHANGED <<pdf, installed, request, extracted>>
    /\ UNCHANGED exceptExtraction

\* The server exits with a non-zero return code, as it does when one of the
\* imports of pdf_server.py lines 5-6 fails.
ServerCrashes ==
    /\ epc = "server"
    /\ process' = [returncode |-> 1, stdout |-> "", response |-> NoResponse]
    /\ epc' = "reply"
    /\ UNCHANGED <<pdf, installed, request, extracted>>
    /\ UNCHANGED exceptExtraction

\* Whether lines 92-95 raise: json.loads of output or of a content that is
\* not JSON.
ReplyRaises(proc) ==
    IF proc.stdout # "response" THEN TRUE
    ELSE IF "result" \in DOMAIN proc.response
    THEN proc.response.result.content.format # "json"
    ELSE FALSE

\* Lines 91-103: the reply is read.
ClientReads ==
    /\ epc = "reply"
    /\ \/ /\ process.returncode # 0
          /\ extracted' = ReturnNone
          /\ epc' = "done"
       \/ /\ process.returncode = 0
          /\ ~ReplyRaises(process)
          /\ extracted' =
                IF "result" \in DOMAIN process.response
                THEN SelectText(process.response.result.content.value)
                ELSE ReturnNone
          /\ epc' = "done"
       \/ /\ process.returncode = 0
          /\ ReplyRaises(process)
          /\ extracted' = extracted
          /\ epc' = "direct"
    /\ UNCHANGED <<pdf, installed, request, process>>
    /\ UNCHANGED exceptExtraction

\* Lines 105-108: the fallback to direct extraction.
ClientFallsBack ==
    /\ epc = "direct"
    /\ extracted' = extract_text_direct(pdf, installed)
    /\ epc' = "done"
    /\ UNCHANGED <<pdf, installed, request, process>>
    /\ UNCHANGED exceptExtraction

ExtractionNext ==
    \/ ClientSend
    \/ ClientSpawnFails
    \/ ServerAnswers
    \/ ServerRejects
    \/ ServerGarbles
    \/ ServerCrashes
    \/ ClientReads
    \/ ClientFallsBack

(***************************************************************************)
(* FinanceProfileManager: the ledger of FinancialProfile rows.             *)
(***************************************************************************)
\* A key that a JSON object lacks, and the JSON value null.
Missing == <<"<missing>">>
Null == <<"<null>">>

\* category_mapping: lines 182-195.
category_mapping ==
    <<[key |-> <<"f", "o", "o", "d">>, value |-> "expenses"],
      [key |-> <<"g", "a", "s">>, value |-> "expenses"],
      [key |-> <<"s", "h", "o", "p", "p", "i", "n", "g">>, value |-> "expenses"],
      [key |-> <<"e", "n", "t", "e", "r", "t", "a", "i", "n", "m", "e", "n", "t">>, value |-> "expenses"],
      [key |-> <<"i", "n", "c", "o", "m", "e">>, value |-> "income"],
      [key |-> <<"s", "a", "l", "a", "r", "y">>, value |-> "income"],
      [key |-> <<"i", "n", "v", "e", "s", "t", "m", "e", "n", "t">>, value |-> "investments"],
      [key |-> <<"s", "t", "o", "c", "k">>, value |-> "investments"],
      [key |-> <<"b", "o", "n", "d">>, value |-> "investments"],
      [key |-> <<"c", "r", "e", "d", "i", "t">>, value |-> "liabilities"],
      [key |-> <<"l", "o", "a", "n">>, value |-> "liabilities"],
      [key |-> <<"m", "o", "r", "t", "g", "a", "g", "e">>, value |-> "liabilities"]>>

\* dict.get(key, default) on category_mapping.
MappingGet(key, default) ==
    IF \E i \in 1..Len(category_mapping) : category_mapping[i].key = key
    THEN category_mapping[CHOOSE i \in 1..Len(category_mapping) : category_mapping[i].key = key].value
    ELSE default

\* _map_category without the lower().
map_category_case_sensitive(original_category) ==
    MappingGet(original_category, "other")

\* _map_category: lines 178-197.
map_category(original_category) ==
    MappingGet(Lower(original_category), "other")

\* The day a handler runs on, and a day more than 90 days before it.
Today == 200
LongAgo == 100

\* Numbers as the LLM's JSON gives them: a number, a missing key, null, or a
\* string that float() rejects. Amounts are whole multiples of 3, so that the
\* average over 3 months is exact.
Num(n) == [tag |-> "num", v |-> n]
NumMissing == [tag |-> "missing", v |-> 0]
NumNull == [tag |-> "null", v |-> 0]
NumBad == [tag |-> "bad", v |-> 0]

\* Dates as the LLM's JSON gives them: an ISO date, a missing key, or a
\* string that datetime.fromisoformat rejects.
IsoDate(d) == [tag |-> "iso", v |-> d]
DateMissing == [tag |-> "missing", v |-> 0]
DateBad == [tag |-> "bad", v |-> 0]

\* The category strings handed to _map_category.
CategoryInputs ==
    {<<"F", "o", "o", "d">>,
     <<"G", "A", "S">>,
     <<"s", "h", "o", "p", "p", "i", "n", "g">>,
     <<"E", "n", "t", "e", "r", "t", "a", "i", "n", "m", "e", "n", "t">>,
     <<"I", "N", "C", "O", "M", "E">>,
     <<"S", "a", "l", "a", "r", "y">>,
     <<"i", "n", "v", "e", "s", "t", "m", "e", "n", "t">>,
     <<"S", "t", "o", "c", "k">>,
     <<"B", "O", "N", "D">>,
     <<"C", "r", "e", "d", "i", "t">>,
     <<"l", "o", "a", "n">>,
     <<"M", "O", "R", "T", "G", "A", "G", "E">>,
     <<"r", "e", "n", "t">>,
     <<"e", "x", "p", "e", "n", "s", "e", "s">>}

\* The items of a "transactions" list: a well-formed item with every
\* category, and items that differ from it in one field.
BaseTxn == [date |-> IsoDate(LongAgo), category |-> <<"F", "o", "o", "d">>,
            type |-> "debit", amount |-> Num(-6)]
TxnItems ==
    {[BaseTxn EXCEPT !.category = c] : c \in CategoryInputs \cup {Missing, Null}}
        \cup {[BaseTxn EXCEPT !.amount = a] : a \in {Num(9), NumMissing, NumNull, NumBad}}
        \cup {[BaseTxn EXCEPT !.date = d] : d \in {DateMissing, DateBad}}

\* The items of an "investments" list.
InvItems ==
    {[type |-> "stock", value |-> Num(12), symbol |-> <<"A", "A", "A">>],
     [type |-> "stock", value |-> NumBad, symbol |-> <<"A", "A", "A">>],
     [type |-> "bond", value |-> NumMissing, symbol |-> Null]}

SeqsUpTo(S, n) == UNION {[1..k -> S] : k \in 0..n}

\* Analyses with an item that fails between items that do not: a
\* transaction with an unparsable date, a non-numeric amount or a null
\* category between two well-formed ones, and an investment with a
\* non-numeric value before a well-formed one.
FailingTxns ==
    {[BaseTxn EXCEPT !.date = DateBad], [BaseTxn EXCEPT !.amount = NumBad],
     [BaseTxn EXCEPT !.category = Null]}
GoodInv == [type |-> "stock", value |-> Num(12), symbol |-> <<"A", "A", "A">>]
BadInv == [type |-> "stock", value |-> NumBad, symbol |-> <<"A", "A", "A">>]
MixedAnalyses ==
    {[success |-> TRUE, has_ai_analysis |-> TRUE,
      has_transactions |-> TRUE,
      transactions |-> <<BaseTxn, bad, [BaseTxn EXCEPT !.amount = Num(9)]>>,
      has_investments |-> TRUE, investments |-> i] :
        bad \in FailingTxns, i \in {<<GoodInv>>, <<BadInv, GoodInv>>}}

\* The analysis results handed to process_document_analysis: a processing
\* result with the LLM's analysis, one without success, one without
\* ai_analysis, and ones whose ai_analysis has no lists.
Analyses ==
    {[success |-> TRUE, has_ai_analysis |-> TRUE,
      has_transactions |-> TRUE, transactions |-> t,
      has_investments |-> TRUE, investments |-> i] :
        t \in SeqsUpTo(TxnItems, MaxTransactions), i \in SeqsUpTo(InvItems, MaxInvestments)}
    \cup
    {[success |-> sc, has_ai_analysis |-> ai,
      has_transactions |-> FALSE, transactions |-> <<>>,
      has_investments |-> FALSE, investments |-> <<>>] :
        sc \in BOOLEAN, ai \in BOOLEAN}
    \cup MixedAnalyses

\* float(x): whether it raises.
FloatRaises(x) == x.tag \in {"null", "bad"}
Float(x) == IF x.tag = "num" THEN x.v ELSE 0

\* FinancialProfile(...): lines 19-27.
FinancialProfile(category, subcategory, amount, date, source_document_id, metadata) ==
    [category |-> category, subcategory |-> subcategory, amount |-> amount,
     date |-> date, source_document_id |-> source_document_id, metadata |-> metadata]

\* add_financial_entry: lines 13-33.
add_financial_entry(rows, entry) == Append(rows, entry)

\* Lines 47-60: whether the body of the try raises for a transaction.
TxnRaises(txn) ==
    \/ txn.date.tag = "bad"
    \/ txn.category = Null
    \/ FloatRaises(txn.amount)

\* Lines 48-58.
TxnEntry(txn, doc_id) ==
    FinancialProfile(
        map_category(IF txn.category = Missing THEN <<"o", "t", "h", "e", "r">> ELSE txn.category),
        txn.type,
        Float(txn.amount),
        IF txn.date.tag = "iso" THEN txn.date.v ELSE Today,
        doc_id,
        [symbol |-> Missing])

\* Lines 65-76: whether the body of the try raises for an investment.
InvRaises(inv) == FloatRaises(inv.value)

\* Lines 66-74.
InvEntry(inv, doc_id) ==
    FinancialProfile("investments", inv.type, Float(inv.value), Today, doc_id,
                     [symbol |-> inv.symbol])

\* The loop over the transactions, ended by the first item that raises.
RECURSIVE ProcessTransactionsUntilFailure(_, _, _)
ProcessTransactionsUntilFailure(rows, txns, doc_id) ==
    IF txns = <<>> THEN rows
    ELSE IF TxnRaises(Head(txns)) THEN rows
    ELSE ProcessTransactionsUntilFailure(
            add_financial_entry(rows, TxnEntry(Head(txns), doc_id)), Tail(txns), doc_id)

\* Lines 46-60: the loop over the transactions.
RECURSIVE ProcessTransactions(_, _, _)
ProcessTransactions(rows, txns, doc_id) ==
    IF txns = <<>> THEN rows
    ELSE ProcessTransactions(
            IF TxnRaises(Head(txns)) THEN rows
            ELSE add_financial_entry(rows, TxnEntry(Head(txns), doc_id)),
            Tail(txns), doc_id)

\* Lines 64-76: the loop over the investments.
RECURSIVE ProcessInvestments(_, _, _)
ProcessInvestments(rows, invs, doc_id) ==
    IF invs = <<>> THEN rows
    ELSE ProcessInvestments(
            IF InvRaises(Head(invs)) THEN rows
            ELSE add_financial_entry(rows, InvEntry(Head(invs), doc_id)),
            Tail(invs), doc_id)

\* process_document_analysis without the try/except of lines 47-60: the first
\* transaction that raises ends the call.
process_document_analysis_no_try(rows, doc_id, a) ==
    IF ~a.success \/ ~a.has_ai_analysis THEN rows
    ELSE LET bad == {i \in 1..Len(a.transactions) : TxnRaises(a.transactions[i])}
         IN  IF bad = {}
             THEN ProcessInvestments(ProcessTransactions(rows, a.transactions, doc_id),
                                     a.investments, doc_id)
             ELSE ProcessTransactions(
                     rows,
                     SubSeq(a.transactions, 1, (CHOOSE i \in bad : \A j \in bad : i <= j) - 1),
                     doc_id)

\* process_document_analysis: lines 35-76.
process_document_analysis(rows, doc_id, a) ==
    IF ~a.success \/ ~a.has_ai_analysis THEN rows
    ELSE LET afterTransactions ==
                 IF a.has_transactions
                 THEN ProcessTransactions(rows, a.transactions, doc_id)
                 ELSE rows
         IN  IF a.has_investments
             THEN ProcessInvestments(afterTransactions, a.investments, doc_id)
             ELSE afterTransactions

\* func.sum(amount) over the filtered rows, "or 0.0".
RECURSIVE SumAmounts(_)
SumAmounts(rows) ==
    IF rows = <<>> THEN 0 ELSE Head(rows).amount + SumAmounts(Tail(rows))

ExpenseCategories == {"expenses", "food", "gas", "shopping", "entertainment"}

\* Lines 93-96 without the amount filter.
AssetTotalAnySign(rows) ==
    LET Keep(r) == r.category \in {"assets", "investments"}
    IN  SumAmounts(SelectSeq(rows, Keep))

\* Lines 93-96.
AssetTotal(rows) ==
    LET Keep(r) == r.category \in {"assets", "investments"} /\ r.amount > 0
    IN  SumAmounts(SelectSeq(rows, Keep))

\* Lines 98-101.
LiabilityTotal(rows) ==
    LET Keep(r) == r.category = "liabilities" /\ r.amount < 0
    IN  Abs(SumAmounts(SelectSeq(rows, Keep)))

\* Lines 135-142.
MonthlyIncome(rows) ==
    LET three_months_ago == Today - 90
        Keep(r) == r.category = "income" /\ r.date >= three_months_ago /\ r.amount > 0
    IN  SumAmounts(SelectSeq(rows, Keep)) \div 3

\* Lines 144-149.
MonthlyExpenses(rows) ==
    LET three_months_ago == Today - 90
        Keep(r) == r.category \in ExpenseCategories /\ r.date >= three_months_ago /\ r.amount < 0
    IN  Abs(SumAmounts(SelectSeq(rows, Keep))) \div 3

\* get_profile_summary: lines 78-161.
get_profile_summary(rows) ==
    [total_assets |-> AssetTotal(rows),
     total_liabilities |-> LiabilityTotal(rows),
     net_worth |-> AssetTotal(rows) - LiabilityTotal(rows),
     monthly_income |-> MonthlyIncome(rows),
     monthly_expenses |-> MonthlyExpenses(rows)]

\* Rows the ledger may hold before the call: add_financial_entry takes any
\* category and any amount.
StoredRows ==
    {FinancialProfile(c, "unknown", a, Today, 1, [symbol |-> Missing]) :
        c \in {"assets", "liabilities"}, a \in {-6, 9}}
    \cup {FinancialProfile("income", "unknown", 9, Today, 1, [symbol |-> Missing]),
          FinancialProfile("food", "unknown", -6, Today, 1, [symbol |-> Missing])}

NoAnalysis ==
    [success |-> FALSE, has_ai_analysis |-> FALSE,
     has_transactions |-> FALSE, transactions |-> <<>>,
     has_investments |-> FALSE, investments |-> <<>>]
NoSummary ==
    [total_assets |-> 0, total_liabilities |-> 0, net_worth |-> 0,
     monthly_income |-> 0, monthly_expenses |-> 0]

ProfileIdle ==
    /\ ledger = <<>>
    /\ ledger_before = <<>>
    /\ document_id = 0
    /\ analysis = NoAnalysis
    /\ summary = NoSummary
    /\ ppc = "idle"

ProfileInit ==
    /\ ledger \in SeqsUpTo(StoredRows, MaxStoredRows)
    /\ ledger_before = ledger
    /\ document_id = 2
    /\ analysis \in Analyses
    /\ summary = NoSummary
    /\ ppc = "call"

\* process_document_analysis(document_id, analysis).
ProcessDocumentAnalysis ==
    /\ ppc = "call"
    /\ ledger_before' = ledger
    /\ ledger' = process_document_analysis(ledger, document_id, analysis)
    /\ ppc' = "processed"
    /\ UNCHANGED <<document_id, analysis, summary>>
    /\ UNCHANGED exceptProfile

\* get_profile_summary().
GetProfileSummary ==
    /\ ppc = "processed"
    /\ summary' = get_profile_summary(ledger)
    /\ ppc' = "summarized"
    /\ UNCHANGED <<ledger, ledger_before, document_id, analysis>>
    /\ UNCHANGED exceptProfile

ProfileNext == ProcessDocumentAnalysis \/ GetProfileSummary

\* process_document_analysis(document_id, analysis) called a second time
\* with the same arguments, after the summary of the first call was read.
ProcessDocumentAnalysisAgain ==
    /\ ppc = "summarized"
    /\ ledger_before' = ledger
    /\ ledger' = process_document_analysis(ledger, document_id, analysis)
    /\ ppc' = "processed_again"
    /\ UNCHANGED <<document_id, analysis, summary>>
    /\ UNCHANGED exceptProfile

ProfileTwiceNext ==
    ProcessDocumentAnalysis \/ GetProfileSummary \/ ProcessDocumentAnalysisAgain

(***************************************************************************)
(* RAGVectorStore: add_document, delete_document, get_document_info and    *)
(* list_documents over the collection of chunks.                           *)
(***************************************************************************)
\* _chunk_text as one call: lines 160-195.
RECURSIVE ChunkLoop(_, _, _, _)
ChunkLoop(t, st, cs, ov) ==
    IF st >= Len(t) THEN <<>>
    ELSE LET end == ChunkEnd(t, st, cs)
             chunk == Strip(Slice(t, st, end))
         IN  (IF chunk # <<>> THEN <<chunk>> ELSE <<>>)
                 \o ChunkLoop(t, NextStart(end, ov), cs, ov)
chunk_text(t, cs, ov) == IF Len(t) <= cs THEN <<t>> ELSE ChunkLoop(t, 0, cs, ov)

\* The document ids, texts and metadata handed to the store.
StoreDocumentIds == {<<"a">>, <<"b">>}
StoreTexts == {<<"a", "a">>, <<"a", "a", "a", "a", "a", "a", "a", "a", "a", "a", "a", "a">>}
NoMetadata == [none |-> TRUE]
StoreMetadatas == {NoMetadata, [document_id |-> <<"b">>]}

\* f"{document_id}_chunk_{i}": line 43.
ChunkIdInfix == <<"_", "c", "h", "u", "n", "k", "_">>
ChunkId(document_id_, i) == document_id_ \o ChunkIdInfix \o IntStr(i)

\* chunk_metadata: lines 50-55. The caller's metadata is spread last, so its
\* keys replace the three keys written before it.
ChunkMetadata(document_id_, i, total, metadata) ==
    LET own == [document_id |-> document_id_, chunk_index |-> i, total_chunks |-> total]
    IN  IF metadata = NoMetadata THEN own ELSE metadata @@ own

\* An entry of the collection: lines 58-63.
Entry(id, document, metadata) == [id |-> id, document |-> document, metadata |-> metadata]

StoredIds(entries) == {entries[k].id : k \in 1..Len(entries)}

\* How a call of the store ends.
StoreReturn(v) == [kind |-> "return", value |-> v, printed |-> FALSE]
StoreReturnAfterError(v) == [kind |-> "return", value |-> v, printed |-> TRUE]
StoreRaise == [kind |-> "raise", value |-> FALSE, printed |-> FALSE]
NothingReturned == [kind |-> "none", value |-> FALSE, printed |-> FALSE]
NoStoreCall == [op |-> "none", document_id |-> <<>>]

\* The loop of add_document, lines 42-63, from chunk i on. collection.add of
\* an id that is already stored either leaves the stored entry as it is or
\* raises, depending on the library.
RECURSIVE AddChunks(_, _, _, _, _, _)
AddChunks(entries, document_id_, chunks_, i, metadata, duplicate_raises) ==
    IF i >= Len(chunks_) THEN [entries |-> entries, raised |-> FALSE]
    ELSE IF ChunkId(document_id_, i) \in StoredIds(entries)
    THEN IF duplicate_raises
         THEN [entries |-> entries, raised |-> TRUE]
         ELSE AddChunks(entries, document_id_, chunks_, i + 1, metadata, duplicate_raises)
    ELSE AddChunks(
            Append(entries,
                   Entry(ChunkId(document_id_, i), chunks_[i + 1],
                         ChunkMetadata(document_id_, i, Len(chunks_), metadata))),
            document_id_, chunks_, i + 1, metadata, duplicate_raises)

\* collection.get(where={"document_id": document_id}).
GetWhere(entries, document_id_) ==
    LET Matches(e) == e.metadata.document_id = document_id_
    IN  SelectSeq(entries, Matches)

\* delete_document: lines 94-111. Whether collection.get takes 'ids' as an
\* item of include depends on the library; where it does not, get raises and
\* the except of lines 109-111 returns False.
delete_document(entries, document_id_, include_ids_accepted) ==
    IF ~include_ids_accepted
    THEN [entries |-> entries, returned |-> StoreReturnAfterError(FALSE)]
    ELSE LET ids == StoredIds(GetWhere(entries, document_id_))
             Kept(e) == e.id \notin ids
         IN  IF ids # {}
             THEN [entries |-> SelectSeq(entries, Kept), returned |-> StoreReturn(TRUE)]
             ELSE [entries |-> entries, returned |-> StoreReturn(FALSE)]

\* get_document_info: lines 113-133.
get_document_info(entries, document_id_) ==
    LET found == GetWhere(entries, document_id_)
    IN  IF found = <<>>
        THEN [exists |-> FALSE]
        ELSE [exists |-> TRUE, chunk_count |-> Len(found), document_id |-> document_id_,
              metadata |-> found[1].metadata]

\* list_documents: lines 135-158, the grouping by document_id in the order
\* of first appearance.
RECURSIVE ListedIds(_)
ListedIds(entries) ==
    IF entries = <<>> THEN <<>>
    ELSE LET before == ListedIds(SubSeq(entries, 1, Len(entries) - 1))
             id == entries[Len(entries)].metadata.document_id
         IN  IF \E k \in 1..Len(before) : before[k] = id THEN before ELSE Append(before, id)
list_documents(entries) ==
    LET ids == ListedIds(entries)
    IN  [k \in 1..Len(ids) |->
            [document_id |-> ids[k],
             chunk_count |-> Len(GetWhere(entries, ids[k])),
             metadata |-> GetWhere(entries, ids[k])[1].metadata]]

StoreIdle ==
    /\ collection = <<>>
    /\ collection_before = <<>>
    /\ store_call = NoStoreCall
    /\ returned = NothingReturned

\* RAGVectorStore.__init__ on an empty persist directory: lines 10-33.
StoreInit ==
    /\ collection = <<>>
    /\ collection_before = <<>>
    /\ store_call = NoStoreCall
    /\ returned = NothingReturned

\* add_document(document_id, text, metadata): lines 35-65.
StoreAddDocument ==
    /\ \E document_id_ \in StoreDocumentIds, t \in StoreTexts, metadata \in StoreMetadatas,
          duplicate_raises \in BOOLEAN :
        LET chunks_ == chunk_text(t, DefaultChunkSize, DefaultOverlap)
            added == AddChunks(collection, document_id_, chunks_, 0, metadata, duplicate_raises)
        IN  /\ collection' = added.entries
            /\ returned' =
                  IF added.raised THEN StoreRaise
                  ELSE StoreReturn([i \in 1..Len(chunks_) |-> ChunkId(document_id_, i - 1)])
            /\ store_call' = [op |-> "add", document_id |-> document_id_]
    /\ collection_before' = collection
    /\ UNCHANGED exceptStore

\* delete_document(document_id).
StoreDeleteDocument ==
    /\ \E document_id_ \in StoreDocumentIds, include_ids_accepted \in BOOLEAN :
        LET deleted == delete_document(collection, document_id_, include_ids_accepted)
        IN  /\ collection' = deleted.entries
            /\ returned' = deleted.returned
            /\ store_call' = [op |-> "delete", document_id |-> document_id_]
    /\ collection_before' = collection
    /\ UNCHANGED exceptStore

\* get_document_info(document_id).
StoreGetDocumentInfo ==
    /\ \E document_id_ \in StoreDocumentIds :
        /\ returned' = StoreReturn(get_document_info(collection, document_id_))
        /\ store_call' = [op |-> "info", document_id |-> document_id_]
    /\ collection_before' = collection
    /\ UNCHANGED collection
    /\ UNCHANGED exceptStore

\* list_documents().
StoreListDocuments ==
    /\ returned' = StoreReturn(list_documents(collection))
    /\ store_call' = [op |-> "list", document_id |-> <<>>]
    /\ collection_before' = collection
    /\ UNCHANGED collection
    /\ UNCHANGED exceptStore

StoreNext ==
    \/ StoreAddDocument
    \/ StoreDeleteDocument
    \/ StoreGetDocumentInfo
    \/ StoreListDocuments

(***************************************************************************)
(* LLMClient.analyze_financial_document: src/src/core/llm_client.py.       *)
(***************************************************************************)
\* The characters of a provider's reply.
ReplyChars == {"{", "}", "[", "]", "0", "1", " ", "x"}
Replies == SeqsUpTo(ReplyChars, MaxReplyLen)

\* Python values: a dict, a list, an int.
PyDict(items) == [type |-> "dict", items |-> items]
PyList(items) == [type |-> "list", items |-> items]
PyInt(n) == [type |-> "int", items |-> n]

\* json.loads: the scanner skips whitespace, reads one value (an object, an
\* array or a number; the replies have no other characters of JSON), skips
\* whitespace and raises JSONDecodeError unless it is then at the end.
RECURSIVE SkipWhitespace(_, _)
SkipWhitespace(s, i) ==
    IF i <= Len(s) /\ s[i] = " " THEN SkipWhitespace(s, i + 1) ELSE i

RECURSIVE ScanDigits(_, _)
ScanDigits(s, i) ==
    IF i <= Len(s) /\ s[i] \in {"0", "1"} THEN ScanDigits(s, i + 1) ELSE i

RECURSIVE DigitsValue(_)
DigitsValue(ds) ==
    IF ds = <<>> THEN 0
    ELSE 10 * DigitsValue(SubSeq(ds, 1, Len(ds) - 1))
            + (IF ds[Len(ds)] = "1" THEN 1 ELSE 0)

Scanned(next, value) == [ok |-> TRUE, next |-> next, value |-> value]
NotScanned == [ok |-> FALSE, next |-> 0, value |-> PyInt(0)]

RECURSIVE ScanValue(_, _)
ScanValue(s, i) ==
    LET j == SkipWhitespace(s, i)
    IN  IF j > Len(s) THEN NotScanned
        ELSE IF s[j] = "{"
        THEN LET k == SkipWhitespace(s, j + 1)
             IN  IF k <= Len(s) /\ s[k] = "}" THEN Scanned(k + 1, PyDict(<<>>)) ELSE NotScanned
        ELSE IF s[j] = "["
        THEN LET k == SkipWhitespace(s, j + 1)
             IN  IF k <= Len(s) /\ s[k] = "]" THEN Scanned(k + 1, PyList(<<>>))
                 ELSE LET element == ScanValue(s, k)
                          m == SkipWhitespace(s, element.next)
                      IN  IF element.ok /\ m <= Len(s) /\ s[m] = "]"
                          THEN Scanned(m + 1, PyList(<<element.value>>))
                          ELSE NotScanned
        ELSE IF s[j] = "0" THEN Scanned(j + 1, PyInt(0))
        ELSE IF s[j] = "1"
        THEN LET k == ScanDigits(s, j)
             IN  Scanned(k, PyInt(DigitsValue(SubSeq(s, j, k - 1))))
        ELSE NotScanned

\* json.loads(content): the value, or JSONDecodeError.
JsonLoads(content) ==
    LET scanned == ScanValue(content, 1)
    IN  IF scanned.ok /\ SkipWhitespace(content, scanned.next) > Len(content)
        THEN [decoded |-> TRUE, value |-> scanned.value]
        ELSE [decoded |-> FALSE, value |-> PyInt(0)]

\* What the provider call of lines 22-43 ends with: a reply text, a reply
\* without text (message.content is None), or an exception.
Content(c) == [kind |-> "content", content |-> c]
ContentNone == [kind |-> "null", content |-> <<>>]
ProviderError == [kind |-> "exception", content |-> <<>>]
Outcomes == {Content(c) : c \in Replies} \cup {ContentNone, ProviderError}

\* The providers LLMClient.__init__ accepts: lines 8-16.
Providers == {"openai", "anthropic"}

\* The dicts of lines 50 and 53.
RawAnalysis(content) == PyDict([raw_analysis |-> content, parsing_error |-> TRUE])
AnalysisError == PyDict([error |-> "str(e)", success |-> FALSE])

\* How a call of analyze_financial_document ends.
LlmReturn(v) == [kind |-> "return", value |-> v]
LlmRaise == [kind |-> "raise", value |-> PyInt(0)]
LlmRunning == [kind |-> "running", value |-> PyInt(0)]

\* analyze_financial_document without the except of lines 52-53.
analyze_financial_document_no_except(provider_, o) ==
    IF o.kind = "exception" \/ o.kind = "null" THEN LlmRaise
    ELSE IF JsonLoads(o.content).decoded
    THEN LlmReturn(JsonLoads(o.content).value)
    ELSE LlmReturn(RawAnalysis(o.content))

\* analyze_financial_document: lines 18-53. json.loads(None) raises
\* TypeError, which only the outer except catches.
analyze_financial_document(provider_, o) ==
    IF o.kind = "exception" THEN LlmReturn(AnalysisError)
    ELSE IF o.kind = "null" THEN LlmReturn(AnalysisError)
    ELSE IF JsonLoads(o.content).decoded
    THEN LlmReturn(JsonLoads(o.content).value)
    ELSE LlmReturn(RawAnalysis(o.content))

LlmIdle ==
    /\ provider = "openai"
    /\ outcome = ProviderError
    /\ llm_result = LlmRunning
    /\ lpc = "idle"

LlmInit ==
    /\ provider \in Providers
    /\ outcome = ProviderError
    /\ llm_result = LlmRunning
    /\ lpc = "call"

\* Lines 22-43: the provider is called.
ProviderCall ==
    /\ lpc = "call"
    /\ outcome' \in Outcomes
    /\ lpc' = "called"
    /\ UNCHANGED <<provider, llm_result>>
    /\ UNCHANGED exceptLlm

\* Lines 45-53: the reply is parsed and the call returns.
AnalyzeReturns ==
    /\ lpc = "called"
    /\ llm_result' = analyze_financial_document(provider, outcome)
    /\ lpc' = "done"
    /\ UNCHANGED <<provider, outcome>>
    /\ UNCHANGED exceptLlm

LlmNext == ProviderCall \/ AnalyzeReturns

(***************************************************************************)
(* DocumentProcessor.process_document and the web API of                   *)
(* src/src/ui/backend/main.py.                                             *)
(***************************************************************************)
\* s.endswith(suffix)
EndsWith(s, suffix) ==
    /\ Len(suffix) <= Len(s)
    /\ SubSeq(s, Len(s) - Len(suffix) + 1, Len(s)) = suffix

\* Path(p).name and Path(p).suffix: the suffix starts at the last dot of the
\* name, unless that dot is the name's first or last character.
PathName(p) ==
    LET i == RFind(p, "/", 0, Len(p))
    IN  SubSeq(p, i + 2, Len(p))
PathSuffix(p) ==
    LET name == PathName(p)
        i == RFind(name, Dot, 0, Len(name))
    IN  IF 0 < i /\ i < Len(name) - 1 THEN SubSeq(name, i + 1, Len(name)) ELSE <<>>

\* self.supported_formats: line 12.
supported_formats == {<<".", "p", "d", "f">>}

\* How the server process of _extract_text_via_mcp behaves during one call.
\* It answers or rejects only when both imports of pdf_server.py succeed.
ServerBehaviours(inst) ==
    {"spawn_fails", "crashes", "garbles"}
        \cup (IF inst.pymupdf /\ inst.pdfplumber THEN {"answers", "rejects"} ELSE {})

\* _extract_text_via_mcp as one call: document_processor.py lines 60-108.
extract_text_via_mcp(f, inst, behaviour) ==
    LET content == ServerContent([file_path |-> "file", method |-> "both"], f)
    IN  CASE behaviour = "spawn_fails" -> extract_text_direct(f, inst)
          [] behaviour = "crashes" -> ReturnNone
          [] behaviour = "garbles" -> extract_text_direct(f, inst)
          [] behaviour = "rejects" -> ReturnNone
          [] behaviour = "answers" ->
                IF content.format = "json"
                THEN SelectText(content.value)
                ELSE extract_text_direct(f, inst)

\* The llm_client argument of process_document: absent, or a client whose
\* analyze_financial_document returns the given analysis.
NoLlmClient == [provided |-> FALSE]
LlmClientReturning(a) == [provided |-> TRUE, analysis |-> a]
\* A client whose analyze_financial_document raises.
LlmClientRaising == [provided |-> TRUE, raises |-> TRUE]

\* An error message and the value formatted into it.
ErrorText(msg, arg) == [msg |-> msg, arg |-> arg]

\* process_document with the checks of lines 18 and 22 swapped.
process_document_suffix_first(path_exists, file_path, f, inst, behaviour, llm_client) ==
    IF Lower(PathSuffix(file_path)) \notin supported_formats
    THEN [error |-> ErrorText("Unsupported file format: ", Lower(PathSuffix(file_path))),
          success |-> FALSE]
    ELSE IF ~path_exists
    THEN [error |-> ErrorText("File not found", <<>>), success |-> FALSE]
    ELSE LET got == extract_text_via_mcp(f, inst, behaviour)
         IN  IF got.kind = "raise"
             THEN [error |-> ErrorText("str(e)", <<>>), success |-> FALSE,
                   file_path |-> file_path]
             ELSE IF got.kind = "none" \/ got.value = <<>>
             THEN [error |-> ErrorText("Failed to extract text from PDF", <<>>),
                   success |-> FALSE]
             ELSE LET result ==
                          [file_path |-> file_path,
                           file_name |-> PathName(file_path),
                           document_type |-> classify_document_type(got.value),
                           extracted_text |-> got.value,
                           success |-> TRUE]
                  IN  IF ~llm_client.provided THEN result
                      ELSE IF "raises" \in DOMAIN llm_client
                      THEN [ai_analysis_error |-> "str(e)"] @@ result
                      ELSE [ai_analysis |-> llm_client.analysis] @@ result

\* process_document: document_processor.py lines 14-58.
process_document(path_exists, file_path, f, inst, behaviour, llm_client) ==
    IF ~path_exists
    THEN [error |-> ErrorText("File not found", <<>>), success |-> FALSE]
    ELSE IF Lower(PathSuffix(file_path)) \notin supported_formats
    THEN [error |-> ErrorText("Unsupported file format: ", Lower(PathSuffix(file_path))),
          success |-> FALSE]
    ELSE LET got == extract_text_via_mcp(f, inst, behaviour)
         IN  IF got.kind = "raise"
             THEN [error |-> ErrorText("str(e)", <<>>), success |-> FALSE,
                   file_path |-> file_path]
             ELSE IF got.kind = "none" \/ got.value = <<>>
             THEN [error |-> ErrorText("Failed to extract text from PDF", <<>>),
                   success |-> FALSE]
             ELSE LET result ==
                          [file_path |-> file_path,
                           file_name |-> PathName(file_path),
                           document_type |-> classify_document_type(got.value),
                           extracted_text |-> got.value,
                           success |-> TRUE]
                  IN  IF ~llm_client.provided THEN result
                      ELSE IF "raises" \in DOMAIN llm_client
                      THEN [ai_analysis_error |-> "str(e)"] @@ result
                      ELSE [ai_analysis |-> llm_client.analysis] @@ result

\* The line of a statement that records one transaction.
StatementLine == <<"F", "o", "o", "d", " ", "-", "6">>

\* The files a client uploads: their bytes, as far as the PDF libraries are
\* concerned (no page or one page), and their length.
UploadedPdfs ==
    [exists : {TRUE},
     pages : {0, 1},
     body : {StatementLine},
     pymupdf : {LibOk, LibError},
     pdfplumber : {LibOk, LibError}]
FileSizes == {2048}

\* The names a client uploads files under.
Filenames ==
    {<<"a", ".", "p", "d", "f">>,
     <<"B", ".", "P", "D", "F">>,
     <<"a", ".", "t", "x", "t">>,
     <<"d", "/", "a", ".", "p", "d", "f">>}

\* upload_dir / file.filename: main.py lines 79-82.
UploadDir == <<"d", "a", "t", "a", "/", "u", "p", "l", "o", "a", "d", "s", "/">>
FilePath(filename) == UploadDir \o filename

\* open(file_path, "wb"): main.py line 80. The upload directory is the only
\* directory the handler creates (line 77), so the file can be opened when
\* the client's filename has no directory part.
OpensForWriting(file_path) ==
    SubSeq(file_path, 1, Len(file_path) - Len(PathName(file_path))) = UploadDir

\* The paths handed to process_document.
ProcessPaths ==
    {FilePath(name) : name \in Filenames \cup {<<".", "p", "d", "f">>, <<"a">>}}

\* The llm_client arguments handed to process_document.
LlmClients ==
    {NoLlmClient, LlmClientRaising, LlmClientReturning(PyDict(<<>>)),
     LlmClientReturning(AnalysisError)}

\* The calls of process_document: the path and whether it exists, the file
\* behind it, the installed libraries, how the server process behaves and
\* the llm_client argument.
ProcessCalls ==
    {c \in [path_exists : BOOLEAN, file_path : ProcessPaths, f : Pdfs, inst : Installs,
            behaviour : {"spawn_fails", "crashes", "garbles", "answers", "rejects"},
            llm_client : LlmClients] :
        /\ c.f.exists = c.path_exists
        /\ c.behaviour \in ServerBehaviours(c.inst)}

NotProcessed == [running |-> TRUE]

ProcessIdle ==
    /\ call = [path_exists |-> FALSE]
    /\ processed = NotProcessed
    /\ kpc = "idle"

ProcessInit ==
    /\ call \in ProcessCalls
    /\ processed = NotProcessed
    /\ kpc = "call"

\* process_document(file_path, llm_client).
ProcessDocument ==
    /\ kpc = "call"
    /\ processed' = process_document(call.path_exists, call.file_path, call.f, call.inst,
                                     call.behaviour, call.llm_client)
    /\ kpc' = "done"
    /\ UNCHANGED call
    /\ UNCHANGED exceptProcess

ProcessNext == ProcessDocument

\* What process_document returns for a file just written under the given
\* name, over every uploaded file, every installation and every behaviour of
\* the server process. upload_document passes no llm_client (main.py line 88).
ProcessedUploads ==
    [filename \in Filenames |->
        {process_document(TRUE, FilePath(filename), c.f, c.inst, c.behaviour, NoLlmClient) :
            c \in {c \in [f : UploadedPdfs, inst : Installs,
                          behaviour : {"spawn_fails", "crashes", "garbles", "answers", "rejects"}] :
                      c.behaviour \in ServerBehaviours(c.inst)}}]

\* SettingsCreate: schemas.py lines 5-12. The bodies posted to
\* /api/settings: with and without an API key, with the e-mail fields left
\* out or filled in.
SettingsInputs ==
    {[llm_provider |-> p,
      llm_api_key |-> k,
      gmail_server |-> IF k = "" THEN None ELSE "imap.gmail.com",
      gmail_username |-> IF k = "" THEN None ELSE "me",
      gmail_password |-> IF k = "" THEN None ELSE "pw",
      auto_check_email |-> k # "",
      check_interval |-> IF k = "" THEN 60 ELSE 30] :
        p \in {"openai", "gemini"}, k \in {"", "sk"}}

\* What get_settings returns while the table is empty: main.py lines 45-53.
DefaultSettings ==
    [llm_provider |-> "openai", llm_api_key |-> "", gmail_server |-> "",
     gmail_username |-> "", gmail_password |-> "", auto_check_email |-> FALSE,
     check_interval |-> 60]

\* The id of a new row: one more than the largest id of the table
\* (models.py lines 9 and 23, an integer primary key).
RECURSIVE MaxId(_)
MaxId(rows) == IF rows = <<>> THEN 0 ELSE Max(Head(rows).id, MaxId(Tail(rows)))
NextId(rows) == MaxId(rows) + 1

\* json.dumps(value): the JSON text of the value.
JsonDumps(value) == [json |-> value]

\* Document(...): main.py lines 90-96, models.py lines 20-31.
Document(id, filename, filepath, document_type_, analysis_result, file_size) ==
    [id |-> id, filename |-> filename, filepath |-> filepath,
     document_type |-> document_type_, analysis_result |-> analysis_result,
     file_size |-> file_size, processed |-> FALSE]

\* HTTP responses.
NoHttpResponse == [endpoint |-> "none", status |-> 0, document_id |-> 0]
HttpResponse(endpoint, status, id) ==
    [endpoint |-> endpoint, status |-> status, document_id |-> id]

\* A response with a body, and an error response with its detail.
HttpBody(endpoint, body) ==
    [endpoint |-> endpoint, status |-> 200, document_id |-> 0, body |-> body]
HttpError(endpoint, status, detail) ==
    [endpoint |-> endpoint, status |-> status, document_id |-> 0, detail |-> detail]

\* The last request the API has handled.
NoHttpRequest == [endpoint |-> "none"]

\* The check of lines 129-131 without its test of the API key.
LlmConfiguredRowOnly(rows) == rows # <<>>

\* "LLM settings configured": main.py lines 129-131.
LlmConfigured(rows) == rows # <<>> /\ rows[1].llm_api_key # ""

ApiIdle ==
    /\ settings = <<>>
    /\ documents = <<>>
    /\ uploads = {}
    /\ response = NoHttpResponse
    /\ last_request = NoHttpRequest

\* init_db() on an empty data directory: main.py lines 33-35.
ApiInit ==
    /\ settings = <<>>
    /\ documents = <<>>
    /\ uploads = {}
    /\ response = NoHttpResponse
    /\ last_request = NoHttpRequest

\* update_settings without its lookup of the existing row: every call adds one.
UpdateSettingsAlwaysAdds ==
    /\ \E settings_data \in SettingsInputs :
        /\ settings' = Append(settings, [id |-> NextId(settings)] @@ settings_data)
        /\ response' = HttpResponse("settings", 200, 0)
        /\ last_request' = [endpoint |-> "settings", settings_data |-> settings_data]
    /\ UNCHANGED <<documents, uploads>>
    /\ UNCHANGED exceptApi

\* POST /api/settings: main.py lines 56-68.
UpdateSettings ==
    /\ \E settings_data \in SettingsInputs :
        /\ settings' =
              IF settings # <<>>
              THEN <<settings_data @@ settings[1]>>
              ELSE <<[id |-> NextId(settings)] @@ settings_data>>
        /\ response' = HttpResponse("settings", 200, 0)
        /\ last_request' = [endpoint |-> "settings", settings_data |-> settings_data]
    /\ UNCHANGED <<documents, uploads>>
    /\ UNCHANGED exceptApi

\* GET /api/settings: main.py lines 41-54.
GetSettings ==
    /\ response' =
          IF settings = <<>>
          THEN HttpBody("get_settings", DefaultSettings)
          ELSE HttpBody("get_settings", settings[1])
    /\ last_request' = [endpoint |-> "get_settings"]
    /\ UNCHANGED <<settings, documents, uploads>>
    /\ UNCHANGED exceptApi

\* POST /api/documents/upload: main.py lines 70-101. The whole handler: the
\* file is written, processed without an LLM client, and recorded. When the
\* file cannot be opened the FileNotFoundError of line 80 ends the request
\* with status 500 before anything is recorded.
UploadDocument ==
    /\ \E filename \in Filenames, size \in FileSizes, document_type_ \in {"financial"} :
        /\ last_request' = [endpoint |-> "upload", filename |-> filename, file_size |-> size]
        /\ IF ~EndsWith(Lower(filename), <<".", "p", "d", "f">>)
           THEN /\ response' = HttpResponse("upload", 400, 0)
                /\ UNCHANGED <<documents, uploads>>
           ELSE IF ~OpensForWriting(FilePath(filename))
           THEN /\ response' = HttpError("upload", 500, "Internal Server Error")
                /\ UNCHANGED <<documents, uploads>>
           ELSE \E analysis_result \in ProcessedUploads[filename] :
                   LET file_path == FilePath(filename)
                       doc == Document(NextId(documents), filename, file_path,
                                       document_type_, JsonDumps(analysis_result), size)
                   IN  /\ Len(documents) < MaxDocuments
                       /\ uploads' = uploads \cup {file_path}
                       /\ documents' = Append(documents, doc)
                       /\ response' = HttpResponse("upload", 200, doc.id)
    /\ UNCHANGED settings
    /\ UNCHANGED exceptApi

\* DELETE /api/documents/{document_id}: main.py lines 108-119.
DeleteDocument ==
    /\ \E id \in 1..(MaxDocuments + 1) :
        LET Found(d) == d.id = id
            Others(d) == d.id # id
            found == SelectSeq(documents, Found)
        IN  IF found = <<>>
            THEN /\ response' = HttpResponse("delete", 404, 0)
                 /\ UNCHANGED <<documents, uploads>>
            ELSE /\ uploads' = uploads \ {found[1].filepath}
                 /\ documents' = SelectSeq(documents, Others)
                 /\ response' = HttpResponse("delete", 200, 0)
    /\ last_request' = [endpoint |-> "delete"]
    /\ UNCHANGED settings
    /\ UNCHANGED exceptApi

\* The messages a client sends and the answers chat_with_context returns:
\* the provider's answer, or the apology of llm_client.py line 91.
ChatRequests == [message : {"How much did I spend?", ""}, timestamp : {None, "2024-01-01T00:00:00"}]
ChatAnswers == {"answer", "I apologize, but I encountered an error"}

\* ChatMessage(...): main.py lines 143-147.
ChatMessage(id, message, response_, timestamp) ==
    [id |-> id, message |-> message, response |-> response_, timestamp |-> timestamp]

ChatIdle ==
    /\ chat_messages = <<>>
    /\ llm_calls = 0

ChatInit ==
    /\ chat_messages = <<>>
    /\ llm_calls = 0

\* POST /api/chat: main.py lines 127-151. LLMClient(...) raises ValueError
\* for a provider other than openai and anthropic (llm_client.py lines
\* 8-16), which ends the request with status 500.
ChatWithAgent ==
    /\ \E request_ \in ChatRequests, answer \in ChatAnswers :
        /\ last_request' = [endpoint |-> "chat", message |-> request_.message]
        /\ IF ~LlmConfigured(settings)
           THEN /\ response' = HttpError("chat", 400, "LLM settings not configured")
                /\ UNCHANGED <<chat_messages, llm_calls>>
           ELSE IF settings[1].llm_provider \notin Providers
           THEN /\ response' = HttpError("chat", 500, "Internal Server Error")
                /\ UNCHANGED <<chat_messages, llm_calls>>
           ELSE /\ Len(chat_messages) < MaxChatMessages
                /\ llm_calls' = llm_calls + 1
                /\ chat_messages' =
                      Append(chat_messages,
                             ChatMessage(NextId(chat_messages), request_.message, answer,
                                         request_.timestamp))
                /\ response' = HttpBody("chat", answer)
    /\ UNCHANGED <<settings, documents, uploads>>
    /\ UNCHANGED exceptApiAndChat

ChatNext == UpdateSettings \/ GetSettings \/ ChatWithAgent

ApiNext == UpdateSettings \/ UploadDocument \/ DeleteDocument

(***************************************************************************)
(* The specifications, one per component.                                  *)
(***************************************************************************)
(***************************************************************************)
(* The tray launcher, tray_app.py. pystray calls the menu callbacks from   *)
(* the icon's event loop, one at a time; the backend server runs in its    *)
(* own thread, whose steps interleave with those of the callback.          *)
(***************************************************************************)
NoHandler == [pc |-> "idle", url |-> ""]

\* FinanceAgentTray.__init__ and run: lines 14-18, 98-113.
TrayIdle ==
    /\ running = FALSE
    /\ server_threads = <<>>
    /\ handler = NoHandler
    /\ opened = <<>>
    /\ icon = "running"
    /\ clicks = 0

TrayInit ==
    /\ running = FALSE
    /\ server_threads = <<>>
    /\ handler = NoHandler
    /\ opened = <<>>
    /\ icon = "running"
    /\ clicks = 0

\* A click on a menu item: the event loop calls the item's callback.
MenuClick(url) ==
    /\ icon = "running"
    /\ handler = NoHandler
    /\ clicks < MaxClicks
    /\ clicks' = clicks + 1
    /\ handler' = [pc |-> "check", url |-> url]
    /\ UNCHANGED <<running, server_threads, opened, icon>>
    /\ UNCHANGED exceptTray

\* The five callbacks: lines 45-88.
open_app == MenuClick("/")
open_settings == MenuClick("/settings")
open_documents == MenuClick("/documents")
open_chat == MenuClick("/chat")
open_rag == MenuClick("/rag")

\* if not self.running: lines 46, 55, 64, 73, 82.
HandlerCheck ==
    /\ handler.pc = "check"
    /\ handler' = [handler EXCEPT !.pc = IF ~running THEN "start" ELSE "open"]
    /\ UNCHANGED <<running, server_threads, opened, icon, clicks>>
    /\ UNCHANGED exceptTray

\* self.server_thread = threading.Thread(...); self.server_thread.start()
HandlerStart ==
    /\ handler.pc = "start"
    /\ server_threads' = Append(server_threads, "starting")
    /\ handler' = [handler EXCEPT !.pc = "set"]
    /\ UNCHANGED <<running, opened, icon, clicks>>
    /\ UNCHANGED exceptTray

\* The callback without its assignment to self.running.
HandlerSetNothing ==
    /\ handler.pc = "set"
    /\ handler' = [handler EXCEPT !.pc = "sleep"]
    /\ UNCHANGED <<running, server_threads, opened, icon, clicks>>
    /\ UNCHANGED exceptTray

\* self.running = True
HandlerSet ==
    /\ handler.pc = "set"
    /\ running' = TRUE
    /\ handler' = [handler EXCEPT !.pc = "sleep"]
    /\ UNCHANGED <<server_threads, opened, icon, clicks>>
    /\ UNCHANGED exceptTray

\* time.sleep(2)
HandlerSleep ==
    /\ handler.pc = "sleep"
    /\ handler' = [handler EXCEPT !.pc = "open"]
    /\ UNCHANGED <<running, server_threads, opened, icon, clicks>>
    /\ UNCHANGED exceptTray

\* webbrowser.open(url): the callback returns.
HandlerOpen ==
    /\ handler.pc = "open"
    /\ opened' = Append(opened, handler.url)
    /\ handler' = NoHandler
    /\ UNCHANGED <<running, server_threads, icon, clicks>>
    /\ UNCHANGED exceptTray

\* start_backend_server, lines 36-43, in a server thread: the server comes
\* up, or an exception (the port is taken, the import fails) is printed and
\* the thread ends.
ServerServes ==
    /\ \E i \in 1..Len(server_threads) :
        /\ server_threads[i] = "starting"
        /\ server_threads' = [server_threads EXCEPT ![i] = "serving"]
    /\ UNCHANGED <<running, handler, opened, icon, clicks>>
    /\ UNCHANGED exceptTray

ServerFails ==
    /\ \E i \in 1..Len(server_threads) :
        /\ server_threads[i] \in {"starting", "serving"}
        /\ server_threads' = [server_threads EXCEPT ![i] = "failed"]
    /\ UNCHANGED <<running, handler, opened, icon, clicks>>
    /\ UNCHANGED exceptTray

\* quit_app: lines 90-96. The icon's loop stops and the process exits.
quit_app ==
    /\ icon = "running"
    /\ handler = NoHandler
    /\ running' = FALSE
    /\ icon' = "stopped"
    /\ UNCHANGED <<server_threads, handler, opened, clicks>>
    /\ UNCHANGED exceptTray

TrayNext ==
    \/ open_app
    \/ open_settings
    \/ open_documents
    \/ open_chat
    \/ open_rag
    \/ HandlerCheck
    \/ HandlerStart
    \/ HandlerSet
    \/ HandlerSleep
    \/ HandlerOpen
    \/ ServerServes
    \/ ServerFails
    \/ quit_app

SpecTrayInit ==
    TrayInit /\ ChunkIdle /\ ContextIdle /\ ClassifyIdle /\ ExtractionIdle /\ ProfileIdle
        /\ ApiIdle /\ LlmIdle /\ ProcessIdle /\ StoreIdle /\ ChatIdle
SpecTray == SpecTrayInit /\ [][TrayNext]_vars

SpecChunkInit == ChunkInit /\ ContextIdle /\ ClassifyIdle /\ ExtractionIdle /\ ProfileIdle /\ ApiIdle /\ LlmIdle /\ ProcessIdle /\ StoreIdle /\ ChatIdle /\ TrayIdle
SpecChunk == SpecChunkInit /\ [][ChunkNext]_vars

SpecChunkAnyInit == ChunkAnyInit /\ ContextIdle /\ ClassifyIdle /\ ExtractionIdle /\ ProfileIdle /\ ApiIdle /\ LlmIdle /\ ProcessIdle /\ StoreIdle /\ ChatIdle /\ TrayIdle
SpecChunkAny == SpecChunkAnyInit /\ [][ChunkNext]_vars

SpecContextInit == ContextInit /\ ChunkIdle /\ ClassifyIdle /\ ExtractionIdle /\ ProfileIdle /\ ApiIdle /\ LlmIdle /\ ProcessIdle /\ StoreIdle /\ ChatIdle /\ TrayIdle
SpecContext == SpecContextInit /\ [][ContextNext]_vars

SpecClassifyInit == ClassifyInit /\ ChunkIdle /\ ContextIdle /\ ExtractionIdle /\ ProfileIdle /\ ApiIdle /\ LlmIdle /\ ProcessIdle /\ StoreIdle /\ ChatIdle /\ TrayIdle
SpecClassify == SpecClassifyInit /\ [][ClassifyNext]_vars

SpecExtractionInit == ExtractionInit /\ ChunkIdle /\ ContextIdle /\ ClassifyIdle /\ ProfileIdle /\ ApiIdle /\ LlmIdle /\ ProcessIdle /\ StoreIdle /\ ChatIdle /\ TrayIdle
SpecExtraction == SpecExtractionInit /\ [][ExtractionNext]_vars

SpecProfileInit == ProfileInit /\ ChunkIdle /\ ContextIdle /\ ClassifyIdle /\ ExtractionIdle /\ ApiIdle /\ LlmIdle /\ ProcessIdle /\ StoreIdle /\ ChatIdle /\ TrayIdle
SpecProfile == SpecProfileInit /\ [][ProfileNext]_vars
SpecProfileTwice == SpecProfileInit /\ [][ProfileTwiceNext]_vars

SpecApiInit ==
    ApiInit /\ ChunkIdle /\ ContextIdle /\ ClassifyIdle /\ ExtractionIdle /\ ProfileIdle /\ LlmIdle /\ ProcessIdle /\ StoreIdle /\ ChatIdle /\ TrayIdle
SpecApi == SpecApiInit /\ [][ApiNext]_vars

SpecLlmInit ==
    LlmInit /\ ChunkIdle /\ ContextIdle /\ ClassifyIdle /\ ExtractionIdle /\ ProfileIdle /\ ProcessIdle /\ StoreIdle /\ ChatIdle /\ TrayIdle
        /\ ApiIdle
SpecLlm == SpecLlmInit /\ [][LlmNext]_vars

SpecProcessInit ==
    ProcessInit /\ ChunkIdle /\ ContextIdle /\ ClassifyIdle /\ ExtractionIdle /\ ProfileIdle /\ StoreIdle /\ ChatIdle /\ TrayIdle
        /\ ApiIdle /\ LlmIdle
SpecProcess == SpecProcessInit /\ [][ProcessNext]_vars

SpecStoreInit ==
    StoreInit /\ ChunkIdle /\ ContextIdle /\ ClassifyIdle /\ ExtractionIdle /\ ProfileIdle /\ ChatIdle /\ TrayIdle
        /\ ApiIdle /\ LlmIdle /\ ProcessIdle
SpecStore == SpecStoreInit /\ [][StoreNext]_vars

SpecChatInit ==
    ApiInit /\ ChatInit /\ ChunkIdle /\ ContextIdle /\ ClassifyIdle /\ ExtractionIdle /\ TrayIdle
        /\ ProfileIdle /\ LlmIdle /\ ProcessIdle /\ StoreIdle
SpecChat == SpecChatInit /\ [][ChatNext]_vars

(***************************************************************************)
(* Claims about the collection of chunks.                                  *)
(***************************************************************************)
StartsWith(s, prefix) == Len(prefix) <= Len(s) /\ SubSeq(s, 1, Len(prefix)) = prefix

\* The chunks of document d: the entries add_document(d, ...) stored.
ChunksOf(entries, d) ==
    LET Of(e) == StartsWith(e.id, d \o ChunkIdInfix)
    IN  SelectSeq(entries, Of)
ChunksOfOthers(entries, d) ==
    LET NotOf(e) == ~StartsWith(e.id, d \o ChunkIdInfix)
    IN  SelectSeq(entries, NotOf)

\* C15: delete_document(d) deletes all chunks of d and nothing else:
\* afterwards get_document_info(d) reports exists false and list_documents
\* has no entry for d, the chunks of every other document are unchanged, and
\* the call returns True exactly when a chunk of d was stored before it.
\* Stated for the calls in which collection.get did not raise.
C15_DeleteDocumentOnly ==
    (store_call.op = "delete" /\ ~returned.printed) =>
        LET d == store_call.document_id
            listed == list_documents(collection)
        IN  /\ ChunksOf(collection, d) = <<>>
            /\ ~get_document_info(collection, d).exists
            /\ \A k \in 1..Len(listed) : listed[k].document_id # d
            /\ ChunksOfOthers(collection, d) = ChunksOfOthers(collection_before, d)
            /\ returned.value <=> ChunksOf(collection_before, d) # <<>>

\* C26: every chunk stored by a call add_document(d, text, metadata),
\* whatever keys metadata holds, has metadata document_id = d, chunk_index =
\* its position i in the returned id list (its id being '<d>_chunk_<i>') and
\* total_chunks = the number of ids returned.
C26_ChunkMetadataOwnKeys ==
    (store_call.op = "add" /\ returned.kind = "return") =>
        \A k \in (Len(collection_before) + 1)..Len(collection) :
            LET e == collection[k]
                ids == returned.value
            IN  /\ e.metadata.document_id = store_call.document_id
                /\ e.metadata.total_chunks = Len(ids)
                /\ \E i \in 1..Len(ids) :
                      /\ ids[i] = e.id
                      /\ e.id = ChunkId(store_call.document_id, i - 1)
                      /\ e.metadata.chunk_index = i - 1

(***************************************************************************)
(* Claims about analyze_financial_document.                                *)
(***************************************************************************)
\* The texts of JSON values, said by their shape: a number without a
\* leading zero, braces around blanks, or brackets around blanks or around
\* the text of a JSON value, with blanks before and after.
AllBlank(s) == \A i \in 1..Len(s) : s[i] = " "
RECURSIVE IsJsonText(_)
IsJsonText(s) ==
    LET t == Strip(s)
        inner == SubSeq(t, 2, Len(t) - 1)
    IN  \/ t = <<"0">>
        \/ /\ t # <<>>
           /\ t[1] = "1"
           /\ \A i \in 1..Len(t) : t[i] \in {"0", "1"}
        \/ /\ Len(t) >= 2
           /\ t[1] = "{"
           /\ t[Len(t)] = "}"
           /\ AllBlank(inner)
        \/ /\ Len(t) >= 2
           /\ t[1] = "["
           /\ t[Len(t)] = "]"
           /\ (AllBlank(inner) \/ IsJsonText(inner))

\* C11: analyze_financial_document never raises; a reply that is valid JSON
\* gives the parsed value, a reply text that is not valid JSON gives
\* {'raw_analysis': reply, 'parsing_error': True}, and a failed provider
\* call gives {'error': message, 'success': False}.
C11_ThreeOutcomes ==
    lpc = "done" =>
        /\ llm_result.kind = "return"
        /\ (outcome.kind = "content" /\ IsJsonText(outcome.content)) =>
              /\ JsonLoads(outcome.content).decoded
              /\ llm_result.value = JsonLoads(outcome.content).value
              /\ llm_result.value.type \in {"dict", "list", "int"}
        /\ (outcome.kind = "content" /\ ~IsJsonText(outcome.content)) =>
              llm_result.value = RawAnalysis(outcome.content)
        /\ outcome.kind = "exception" => llm_result.value = AnalysisError
        /\ llm_result.value = AnalysisError
              \/ llm_result.value = RawAnalysis(outcome.content)
              \/ (outcome.kind = "content" /\ IsJsonText(outcome.content))

\* The reply [1] was parsed and returned as a list holding 1.
C11_Witness ==
    /\ lpc = "done"
    /\ outcome = Content(<<"[", "1", "]">>)
    /\ llm_result = LlmReturn(PyList(<<PyInt(1)>>))

(***************************************************************************)
(* Claims about process_document.                                          *)
(***************************************************************************)
ErrorOf(result) == IF "error" \in DOMAIN result THEN result.error.msg ELSE "no error"
Extracted == extract_text_via_mcp(call.f, call.inst, call.behaviour)
DocumentTypes ==
    {"credit_card", "bank_statement", "investment", "tax_document", "insurance", "loan", "other"}
NamedPdf(path) == EndsWith(Lower(path), <<".", "p", "d", "f">>)

\* C12: process_document always returns a result with a boolean success
\* field; a path that does not exist gives 'File not found' whatever its
\* extension, an existing path whose extension is not .pdf gives
\* 'Unsupported file format', an extraction without text or with empty text
\* gives 'Failed to extract text from PDF'; success is true exactly when
\* there is no error field, and then the result carries a document_type of
\* the classifier and a non-empty extracted_text.
C12_ProcessDocumentResult ==
    kpc = "done" =>
        /\ "success" \in DOMAIN processed
        /\ processed.success \in BOOLEAN
        /\ ~call.path_exists => ErrorOf(processed) = "File not found"
        /\ (call.path_exists /\ ~NamedPdf(call.file_path)) =>
              ErrorOf(processed) = "Unsupported file format: "
        /\ (/\ call.path_exists
            /\ ErrorOf(processed) # "Unsupported file format: "
            /\ (Extracted.kind = "none" \/ (Extracted.kind = "text" /\ Extracted.value = <<>>))) =>
              ErrorOf(processed) = "Failed to extract text from PDF"
        /\ processed.success <=> "error" \notin DOMAIN processed
        /\ processed.success =>
              /\ processed.document_type \in DocumentTypes
              /\ processed.document_type = classify_document_type(processed.extracted_text)
              /\ processed.extracted_text # <<>>

\* A missing path with an unsupported extension was reported as not found.
C12_Witness ==
    /\ kpc = "done"
    /\ ~call.path_exists
    /\ call.file_path = FilePath(<<"a", ".", "t", "x", "t">>)
    /\ ErrorOf(processed) = "File not found"

(***************************************************************************)
(* Claims about the upload endpoint.                                       *)
(***************************************************************************)
\* The row of the documents table with the given id holds the text of a
\* statement that records a transaction.
HoldsTransaction(id) ==
    \E i \in 1..Len(documents) :
        /\ documents[i].id = id
        /\ documents[i].analysis_result.json.success
        /\ Contains(documents[i].analysis_result.json.extracted_text, StatementLine)

\* C1: once an upload has completed while LLM settings are configured, the
\* transactions of the uploaded document are rows of the ledger whose
\* source_document_id is the id of the new document; for a document that
\* records a transaction, the ledger holds at least one such row.
C1_UploadFillsProfile ==
    (/\ response.endpoint = "upload"
     /\ response.status = 200
     /\ LlmConfigured(settings)
     /\ HoldsTransaction(response.document_id))
        => \E i \in 1..Len(ledger) : ledger[i].source_document_id = response.document_id

(***************************************************************************)
(* Claims about _chunk_text.                                               *)
(***************************************************************************)
Window(c) == c.start..(c.end - 1)

\* C21: every chunk after the first begins at a sentence or word boundary
\* of the text: the character right before its first character is a '.' or
\* a space.
C21_ChunksBeginAtBoundary ==
    cpc = "done" =>
        \A i \in 2..Len(spans) :
            /\ spans[i].lo > 0
            /\ text[spans[i].lo] \in {Dot, Space}

\* C22: with chunk_size >= 1 and 0 <= overlap < chunk_size the start
\* position strictly increases on every iteration of the loop, so the loop
\* reaches the end of the text.
C22_StartIncreases ==
    [][(cpc = "loop" /\ chunk_size >= 1 /\ 0 <= overlap /\ overlap < chunk_size)
        => start' > start]_vars

\* The windows that gave a chunk, and the positions of the text a window covers.
GaveChunk(c) == Strip(Slice(text, c.start, c.end)) # <<>>
ChunkCuts == SelectSeq(cuts, GaveChunk)
Covered(c) == SliceIndex(c.start, Len(text))..(SliceIndex(c.end, Len(text)) - 1)

\* C23: every chunk after the first covers at least one character position
\* of the text that the previous chunk does not cover: no chunk's window lies
\* wholly inside the previous chunk's window.
C23_NoRedundantChunk ==
    cpc = "done" =>
        \A i \in 2..Len(ChunkCuts) :
            \E p \in Covered(ChunkCuts[i]) : p \notin Covered(ChunkCuts[i - 1])

\* C24: _chunk_text never returns an empty or whitespace-only chunk, for
\* any text, the empty text and the texts no longer than chunk_size included.
C24_NoBlankChunk ==
    cpc = "done" => \A i \in 1..Len(chunks) : Strip(chunks[i]) # <<>>

\* C25: every chunk returned by _chunk_text has at most chunk_size
\* characters, whichever parameters it is called with and whichever of the
\* sentence boundary, word boundary or hard cut ends it.
C25_ChunkWithinSize ==
    \A i \in 1..Len(chunks) : Len(chunks[i]) <= chunk_size

\* C25 witness: a finished run over a text longer than chunk_size with one
\* window cut at a boundary and one chunk of exactly chunk_size characters.
C25_Witness ==
    /\ cpc = "done"
    /\ Len(text) > chunk_size
    /\ \E i \in 1..Len(cuts) : cuts[i].end < cuts[i].start + chunk_size
    /\ \E i \in 1..Len(chunks) : Len(chunks[i]) = chunk_size

\* C2: every window cut before the end of the text is followed by a window
\* that starts exactly `overlap` characters before the cut, and the two
\* windows share exactly `overlap` character positions.
C2_OverlapExact ==
    /\ \A i \in 1..Len(cuts) :
          cuts[i].end < Len(text) =>
              /\ (cpc = "done" => i < Len(cuts))
              /\ i < Len(cuts) =>
                    /\ cuts[i + 1].start = cuts[i].end - overlap
                    /\ Cardinality(Window(cuts[i]) \cap Window(cuts[i + 1])) = overlap
    /\ (cpc = "loop" /\ cuts # <<>>) => start = cuts[Len(cuts)].end - overlap

\* C2 witness: a text longer than chunk_size whose first window was cut at a
\* sentence or word boundary and which needed a third window.
C2_Witness ==
    /\ cpc = "done"
    /\ Len(cuts) >= 3
    /\ cuts[1].end < chunk_size
    /\ cuts[2].end < Len(text)

\* C3: once _chunk_text has returned, every non-whitespace position of the
\* text lies inside a returned chunk, every returned chunk is the text
\* between its two positions, and the chunks come in text order.
C3_NoContentLost ==
    cpc = "done" =>
        /\ Len(spans) = Len(chunks)
        /\ \A i \in 1..Len(chunks) : chunks[i] = SubSeq(text, spans[i].lo + 1, spans[i].hi)
        /\ \A p \in 0..(Len(text) - 1) :
              ~IsSpace(text[p + 1]) =>
                  \E i \in 1..Len(spans) : spans[i].lo <= p /\ p < spans[i].hi
        /\ \A i \in 1..(Len(spans) - 1) :
              spans[i].lo <= spans[i + 1].lo /\ spans[i].hi <= spans[i + 1].hi

\* C3 witness: a finished run that stripped whitespace off a chunk and
\* dropped a whitespace-only window, over a text ending in a letter.
C3_Witness ==
    /\ cpc = "done"
    /\ Len(cuts) > Len(chunks)
    /\ Len(chunks) >= 2
    /\ text[Len(text)] = "a"
    /\ \E i \in 1..Len(chunks) : Len(chunks[i]) < chunk_size - 2

\* The positions of ch in the second half of the window that starts at st.
LateHits(ch, st) ==
    {j \in st..(st + chunk_size - 1) :
        j > st + chunk_size \div 2 /\ j < Len(text) /\ text[j + 1] = ch}
Last(S) == CHOOSE j \in S : \A k \in S : k <= j

\* C4: a window that ends before the end of the text is cut right after the
\* last '.' of its second half; with no such '.', right before the last space
\* of its second half; with neither, at chunk_size characters.
C4_BoundaryAware ==
    \A i \in 1..Len(cuts) :
        LET st == cuts[i].start
        IN  st + chunk_size < Len(text) =>
                IF LateHits(Dot, st) # {}
                THEN cuts[i].end = Last(LateHits(Dot, st)) + 1
                ELSE IF LateHits(Space, st) # {}
                THEN cuts[i].end = Last(LateHits(Space, st))
                ELSE cuts[i].end = st + chunk_size

\* C4 witness: a window whose second half holds a '.' and, after it, a space,
\* and which was cut right after the '.'.
C4_Witness ==
    \E i \in 1..Len(cuts) :
        LET st == cuts[i].start
        IN  /\ st + chunk_size < Len(text)
            /\ LateHits(Dot, st) # {}
            /\ LateHits(Space, st) # {}
            /\ Last(LateHits(Space, st)) > Last(LateHits(Dot, st))
            /\ cuts[i].end = Last(LateHits(Dot, st)) + 1

(***************************************************************************)
(* Claims about get_context_for_query.                                     *)
(***************************************************************************)
\* C5: the estimated token count of the returned context string, one token
\* per four characters, does not exceed max_tokens.
C5_ContextWithinLimit ==
    qpc = "done" => Len(context) \div 4 <= max_tokens

RECURSIVE TokensOfFirst(_)
TokensOfFirst(k) ==
    IF k = 0 THEN 0 ELSE TokensOfFirst(k - 1) + Len(ranked[k].document) \div 4

\* C18: get_context_for_query takes the results in rank order and stops at
\* the first one whose estimate would push the total above max_tokens: the
\* chunks included are a prefix of the ranked results, at most 10, the sum of
\* their estimates is at most max_tokens, and nothing is included after a
\* rejected chunk.
C18_RankedPrefix ==
    qpc = "done" =>
        LET k == Len(context_parts)
        IN  /\ k <= 10
            /\ k <= Len(ranked)
            /\ \A i \in 1..k :
                  /\ context_parts[i] = ContextPart(results[i])
                  /\ results[i].document = ranked[i].document
                  /\ results[i].distance = ranked[i].distance
            /\ TokensOfFirst(k) <= max_tokens
            /\ (k < 10 /\ k < Len(ranked)) => TokensOfFirst(k + 1) > max_tokens
            /\ context = Join(<<NL, NL>>, context_parts)

\* The second chunk was rejected and the third, which would still fit, was
\* not included.
C18_Witness ==
    /\ qpc = "done"
    /\ Len(ranked) = 3
    /\ Len(context_parts) = 1
    /\ TokensOfFirst(2) > max_tokens
    /\ TokensOfFirst(1) + Len(ranked[3].document) \div 4 <= max_tokens

(***************************************************************************)
(* Claims about _classify_document_type.                                   *)
(***************************************************************************)
Labels == <<"credit_card", "bank_statement", "investment", "tax_document", "insurance", "loan">>
CategoryKeywords ==
    <<CreditCardPatterns, BankStatementPatterns, InvestmentPatterns,
      TaxDocumentPatterns, InsurancePatterns, LoanPatterns>>

\* The categories one of whose keywords occurs in the text, whatever its case.
Matching(t) ==
    {c \in 1..Len(Labels) :
        \E k \in 1..Len(CategoryKeywords[c]) :
            \E i \in 1..(Len(t) - Len(CategoryKeywords[c][k]) + 1) :
                \A j \in 1..Len(CategoryKeywords[c][k]) :
                    LowerChar(t[i + j - 1]) = CategoryKeywords[c][k][j]}

\* C6: the label is the first category, in the order credit_card,
\* bank_statement, investment, tax_document, insurance, loan, with a keyword
\* in the text compared without regard to case, and 'other' exactly when no
\* category has one.
C6_FirstMatchClassifier ==
    dpc = "done" =>
        LET matching == Matching(text_content)
        IN  /\ document_type \in {Labels[c] : c \in 1..Len(Labels)} \cup {"other"}
            /\ (document_type = "other") <=> (matching = {})
            /\ matching # {} =>
                  document_type = Labels[CHOOSE c \in matching : \A d \in matching : c <= d]

\* C6 witness: a text in capitals with keywords of two lower-priority
\* categories, classified as the earlier of the two.
C6_Witness ==
    /\ dpc = "done"
    /\ Matching(text_content) = {4, 6}
    /\ Contains(text_content, <<"I", "R", "S">>)
    /\ Contains(text_content, <<"L", "O", "A", "N">>)
    /\ document_type = "tax_document"

(***************************************************************************)
(* Claims about text extraction.                                           *)
(***************************************************************************)
\* The server answered the extract_text call with the results of both
\* libraries, and the extractor has returned.
Answered ==
    /\ epc = "done"
    /\ request.name = "extract_text"
    /\ request.arguments.method = "both"
    /\ process.returncode = 0
    /\ process.stdout = "response"
    /\ "result" \in DOMAIN process.response
    /\ process.response.result.content.format = "json"

\* C7: when the PDF server answers an extract_text call made with method
\* 'both', the extractor returns the pdfplumber text if pdfplumber succeeded,
\* otherwise the PyMuPDF text if PyMuPDF succeeded, and no text only if both
\* libraries failed on the file.
C7_PdfplumberThenPyMuPDF ==
    Answered =>
        /\ pdf.pdfplumber = LibOk => extracted = Return(PdfplumberText(pdf))
        /\ (pdf.pdfplumber = LibError /\ pdf.pymupdf = LibOk) => extracted = Return(PyMuPDFText(pdf))
        /\ (pdf.pdfplumber = LibError /\ pdf.pymupdf = LibError) <=> extracted = ReturnNone

\* C7 witness: the server answered, both libraries produced text, and the
\* pdfplumber text, not the PyMuPDF text, was returned.
C7_Witness ==
    /\ Answered
    /\ pdf.pdfplumber = LibOk
    /\ pdf.pymupdf = LibOk
    /\ pdf.pages > 0
    /\ extracted = Return(PdfplumberText(pdf))
    /\ extracted # Return(PyMuPDFText(pdf))

\* The server process produced a text: it ended with return code 0 and a
\* result whose content holds the text of at least one library.
ServerGaveText ==
    IF process.returncode # 0 \/ process.stdout # "response" THEN FALSE
    ELSE IF "result" \notin DOMAIN process.response THEN FALSE
    ELSE IF process.response.result.content.format # "json" THEN FALSE
    ELSE \/ "pdfplumber" \in DOMAIN process.response.result.content.value
         \/ "pymupdf" \in DOMAIN process.response.result.content.value

\* C16: whenever extraction through the PDF server does not produce text
\* (the process fails to start, exits with a non-zero return code, or
\* answers without a usable result), the extractor returns what direct
\* library extraction gives for the file. Stated for the files that direct
\* extraction gets a text from.
C16_FallsBackToDirect ==
    (/\ epc = "done"
     /\ ~ServerGaveText
     /\ extract_text_direct(pdf, installed).kind = "text"
     /\ extract_text_direct(pdf, installed).value # <<>>)
        => extracted = extract_text_direct(pdf, installed)

\* The extractor has returned from _extract_text_direct: the server process
\* did not start, or its reply could not be read.
WentDirect ==
    /\ epc = "done"
    /\ \/ process = NoProcess
       \/ (process.returncode = 0 /\ ReplyRaises(process))

Usable(lib) ==
    IF lib = "pymupdf" THEN installed.pymupdf /\ pdf.pymupdf = LibOk
    ELSE installed.pdfplumber /\ pdf.pdfplumber = LibOk

\* C17: direct extraction tries PyMuPDF, and pdfplumber whenever PyMuPDF is
\* not installed or fails on the file; no text is returned only when both
\* libraries fail.
C17_DirectDualFallback ==
    WentDirect =>
        /\ Usable("pymupdf") => extracted = Return(PyMuPDFText(pdf))
        /\ (~Usable("pymupdf") /\ Usable("pdfplumber")) => extracted = Return(PdfplumberText(pdf))
        /\ extracted.kind # "text" => (~Usable("pymupdf") /\ ~Usable("pdfplumber"))

(***************************************************************************)
(* Claims about the finance profile manager.                               *)
(***************************************************************************)
\* The rows the call added, and the items of the analysis it read.
AddedRows == SubSeq(ledger, Len(ledger_before) + 1, Len(ledger))
Processed == ppc \in {"processed", "summarized"}
Transactions == IF analysis.success /\ analysis.has_ai_analysis THEN analysis.transactions ELSE <<>>
Investments == IF analysis.success /\ analysis.has_ai_analysis THEN analysis.investments ELSE <<>>

\* An item the loop adds a row for: a transaction whose date is absent or an
\* ISO date, whose category is absent or a string and whose amount is absent
\* or a number; an investment whose value is absent or a number.
WellFormedTxn(txn) ==
    /\ txn.date.tag \in {"missing", "iso"}
    /\ txn.category # Null
    /\ txn.amount.tag \in {"missing", "num"}
WellFormedInv(inv) == inv.value.tag \in {"missing", "num"}

\* The category the claim gives an original category string.
ClaimedCategory(c) ==
    LET l == [i \in 1..Len(c) |-> LowerChar(c[i])]
    IN  IF l \in {<<"f", "o", "o", "d">>, <<"g", "a", "s">>,
                  <<"s", "h", "o", "p", "p", "i", "n", "g">>,
                  <<"e", "n", "t", "e", "r", "t", "a", "i", "n", "m", "e", "n", "t">>}
        THEN "expenses"
        ELSE IF l \in {<<"i", "n", "c", "o", "m", "e">>, <<"s", "a", "l", "a", "r", "y">>}
        THEN "income"
        ELSE IF l \in {<<"i", "n", "v", "e", "s", "t", "m", "e", "n", "t">>,
                       <<"s", "t", "o", "c", "k">>, <<"b", "o", "n", "d">>}
        THEN "investments"
        ELSE IF l \in {<<"c", "r", "e", "d", "i", "t">>, <<"l", "o", "a", "n">>,
                       <<"m", "o", "r", "t", "g", "a", "g", "e">>}
        THEN "liabilities"
        ELSE "other"

\* C8: every row process_document_analysis creates has one of the five
\* standard categories; a row made from a transaction has the category the
\* mapping gives its original category, whatever its case ('other' for any
\* string that is not a key, and for a missing category); a row made from an
\* investment has category 'investments'.
C8_CategoryNormalized ==
    Processed =>
        LET txns == SelectSeq(Transactions, WellFormedTxn)
        IN  /\ \A i \in 1..Len(AddedRows) :
                  AddedRows[i].category \in {"expenses", "income", "investments", "liabilities", "other"}
            /\ \A i \in 1..Len(AddedRows) :
                  /\ i <= Len(txns) =>
                        AddedRows[i].category =
                            IF txns[i].category = Missing THEN "other"
                            ELSE ClaimedCategory(txns[i].category)
                  /\ i > Len(txns) => AddedRows[i].category = "investments"

\* C8 witness: the call made a 'liabilities' row from a transaction whose
\* category is MORTGAGE in capitals and an 'investments' row from an
\* investment.
C8_Witness ==
    /\ Processed
    /\ Len(AddedRows) = 2
    /\ Transactions # <<>>
    /\ Transactions[1].category = <<"M", "O", "R", "T", "G", "A", "G", "E">>
    /\ AddedRows[1].category = "liabilities"
    /\ AddedRows[2].category = "investments"

WithoutFailingItems ==
    [analysis EXCEPT !.transactions = SelectSeq(analysis.transactions, WellFormedTxn),
                     !.investments = SelectSeq(analysis.investments, WellFormedInv)]

\* C19: an item that fails (an unparsable date, a non-numeric amount, a null
\* category, a non-numeric value) is skipped and nothing else is: the rows
\* the ledger had are kept, and the rows added are the rows the same call
\* adds for the analysis without the failing items, so every other
\* transaction and every other investment still gets its row.
C19_FailureSkipsOneItem ==
    Processed =>
        /\ SubSeq(ledger, 1, Len(ledger_before)) = ledger_before
        /\ AddedRows = process_document_analysis(<<>>, document_id, WithoutFailingItems)
        /\ (analysis.success /\ analysis.has_ai_analysis) =>
              Len(AddedRows) =
                  Cardinality({i \in 1..Len(analysis.transactions) :
                                  WellFormedTxn(analysis.transactions[i])})
                  + Cardinality({i \in 1..Len(analysis.investments) :
                                    WellFormedInv(analysis.investments[i])})

\* The second of three transactions and the first of two investments failed;
\* the rows of the first and third transaction and of the second investment
\* were added after the row the ledger had.
C19_Witness ==
    /\ Processed
    /\ ledger_before # <<>>
    /\ Len(analysis.transactions) = 3
    /\ ~WellFormedTxn(analysis.transactions[2])
    /\ Len(analysis.investments) = 2
    /\ ~WellFormedInv(analysis.investments[1])
    /\ Len(AddedRows) = 3
    /\ AddedRows[1].amount = -6
    /\ AddedRows[2].amount = 9
    /\ AddedRows[3].category = "investments"

\* The sum of the amounts of the rows of ledger that satisfy Keep.
RECURSIVE TotalOf(_)
TotalOf(S) ==
    IF S = {} THEN 0
    ELSE LET i == CHOOSE i \in S : TRUE IN ledger[i].amount + TotalOf(S \ {i})

\* C10: in every summary net_worth is total_assets minus total_liabilities,
\* the four totals are not negative, total_assets is the sum of the positive
\* amounts of the rows of category assets or investments, and
\* total_liabilities is the absolute value of the sum of the negative amounts
\* of the rows of category liabilities.
C10_SummaryTotals ==
    ppc = "summarized" =>
        /\ summary.net_worth = summary.total_assets - summary.total_liabilities
        /\ summary.total_assets >= 0
        /\ summary.total_liabilities >= 0
        /\ summary.monthly_income >= 0
        /\ summary.monthly_expenses >= 0
        /\ summary.total_assets =
              TotalOf({i \in 1..Len(ledger) :
                          ledger[i].category \in {"assets", "investments"} /\ ledger[i].amount > 0})
        /\ summary.total_liabilities =
              -TotalOf({i \in 1..Len(ledger) :
                          ledger[i].category = "liabilities" /\ ledger[i].amount < 0})

\* C10 witness: a summary of a ledger with a negative asset row and a
\* positive investment row, which counts only the investment.
C10_Witness ==
    /\ ppc = "summarized"
    /\ \E i \in 1..Len(ledger) : ledger[i].category = "assets" /\ ledger[i].amount < 0
    /\ \E i \in 1..Len(ledger) : ledger[i].category = "investments" /\ ledger[i].amount > 0
    /\ summary.total_assets > 0
    /\ summary.net_worth = summary.total_assets

\* C27: after any sequence of uploads and deletions every row of the
\* document table refers to a file that exists under the upload directory.
C27_RowsHaveFiles ==
    \A i \in 1..Len(documents) : documents[i].filepath \in uploads

\* C20: an upload whose filename does not end in '.pdf' (whatever its case)
\* is rejected with status 400 and changes neither the stored files nor the
\* document table; every upload whose filename ends in '.pdf' appends exactly
\* one document row, with the uploaded byte count as file_size and the
\* result of process_document as analysis_result.
C20_UploadCreatesOneRow ==
    [][last_request'.endpoint = "upload" =>
        LET filename == last_request'.filename
        IN  IF ~NamedPdf(filename)
            THEN /\ response'.status = 400
                 /\ documents' = documents
                 /\ uploads' = uploads
            ELSE /\ Len(documents') = Len(documents) + 1
                 /\ SubSeq(documents', 1, Len(documents)) = documents
                 /\ LET doc == documents'[Len(documents')]
                    IN  /\ doc.filename = filename
                        /\ doc.file_size = last_request'.file_size
                        /\ \E r \in ProcessedUploads[filename] :
                              doc.analysis_result = JsonDumps(r)]_vars

\* The fields of SettingsCreate, read from a row or a response body.
SettingsFields(r) ==
    [llm_provider |-> r.llm_provider, llm_api_key |-> r.llm_api_key,
     gmail_server |-> r.gmail_server, gmail_username |-> r.gmail_username,
     gmail_password |-> r.gmail_password, auto_check_email |-> r.auto_check_email,
     check_interval |-> r.check_interval]

\* C13: a chat request made while no settings row exists, or while the
\* stored llm_api_key is empty, is answered with status 400 and the detail
\* 'LLM settings not configured'; no LLM call is made and the stored chat
\* messages are unchanged.
C13_ChatNeedsSettings ==
    [][(/\ last_request'.endpoint = "chat"
        /\ IF settings = <<>> THEN TRUE ELSE settings[1].llm_api_key = "")
       => /\ response'.status = 400
          /\ response'.detail = "LLM settings not configured"
          /\ llm_calls' = llm_calls
          /\ chat_messages' = chat_messages]_vars

\* A chat request was rejected for an empty API key after an earlier one
\* had been answered and stored.
C13_Witness ==
    /\ last_request.endpoint = "chat"
    /\ response.status = 400
    /\ settings # <<>>
    /\ chat_messages # <<>>
    /\ llm_calls > 0

\* C28: every chat request made while a settings row with a non-empty
\* llm_api_key exists is answered with a ChatResponse and appends exactly
\* one chat message, holding the user's message and the returned response,
\* whatever llm_provider the settings row was given.
C28_ChatAlwaysAnswers ==
    [][(last_request'.endpoint = "chat" /\ LlmConfigured(settings))
       => /\ response'.status = 200
          /\ Len(chat_messages') = Len(chat_messages) + 1
          /\ SubSeq(chat_messages', 1, Len(chat_messages)) = chat_messages
          /\ chat_messages'[Len(chat_messages')].message = last_request'.message
          /\ chat_messages'[Len(chat_messages')].response = response'.body]_vars

\* C14: after any sequence of settings reads and updates at most one
\* settings row exists; only update_settings changes the table, and it
\* leaves one row holding exactly the posted fields; get_settings creates no
\* row: with no row it returns the defaults (provider 'openai', empty API
\* key, auto_check_email false, check_interval 60), otherwise the field
\* values of the row, which are those of the most recent update_settings.
C14_SingleSettingsRow ==
    [][/\ Len(settings') <= 1
       /\ IF last_request'.endpoint = "settings"
          THEN /\ Len(settings') = 1
               /\ SettingsFields(settings'[1]) = last_request'.settings_data
          ELSE settings' = settings
       /\ last_request'.endpoint = "get_settings" =>
             /\ response'.status = 200
             /\ IF settings = <<>>
                THEN /\ response'.body.llm_provider = "openai"
                     /\ response'.body.llm_api_key = ""
                     /\ response'.body.auto_check_email = FALSE
                     /\ response'.body.check_interval = 60
                ELSE SettingsFields(response'.body) = SettingsFields(settings[1])]_vars

\* The settings were read back after a second update had replaced the
\* fields of the existing row.
C14_Witness ==
    /\ last_request.endpoint = "get_settings"
    /\ Len(settings) = 1
    /\ response.body.check_interval = 30
    /\ response.body.llm_provider = "gemini"
    /\ settings[1].id = 1

\* C30: process_document_analysis is idempotent per document: a second
\* call with the same document_id and the same analysis leaves the ledger,
\* and with it every aggregate of get_profile_summary, as the first call
\* left them.
C30_IdempotentPerDocument ==
    ppc = "processed_again" =>
        /\ ledger = ledger_before
        /\ get_profile_summary(ledger) = summary

====
